---- MODULE Spec2Model ----
(***************************************************************************)
(* A model of core/domain/exp_domain.py: the exploration state graph and   *)
(* its structural mutations, strict validation, the YAML schema migration  *)
(* chain, the states-schema migration step and the change-list merge       *)
(* verifier.                                                               *)
(*                                                                         *)
(* The specifications share the variables below; each one drives one part  *)
(* of the program and leaves the variables of the other parts idle:        *)
(*   SpecMigrate  - Exploration._migrate_to_latest_yaml_version            *)
(*   SpecStates   - Exploration.update_states_from_model                   *)
(*   SpecGraph    - add_states / rename_state / delete_state /             *)
(*                  update_init_state_name                                 *)
(*   SpecValidate - Exploration.validate                                   *)
(*   SpecStrict   - Exploration.validate, outcomes labelled correct and    *)
(*                  empty settings included                                *)
(*   SpecSearch   - _verify_all_states_reachable / _verify_no_dead_ends    *)
(*   SpecMerge    - ExplorationChangeMergeVerifier                         *)
(*   SpecReplay   - a change list replayed call by call, with its          *)
(*                  ExplorationVersionsDiff                                *)
(***************************************************************************)
EXTENDS Integers, Sequences, FiniteSets, TLC

VARIABLES
    \* ---- YAML migration (Exploration._migrate_to_latest_yaml_version) ----
    exploration_dict,            \* the dict being migrated
    exploration_schema_version,  \* the local variable of the same name
    yaml_pc,                     \* position in the function
    yaml_input,                  \* the dict as it was parsed from yaml_content
    applied,                     \* the conversions applied, by source version
    yaml_error,                  \* TRUE when the function raised
    runs,                        \* number of calls made so far
    \* ---- states migration (Exploration.update_states_from_model) ----
    versioned_exploration_states,
    pre_versioned,               \* the argument as it was before the call
    usfm_call,                   \* the last call: its version and its outcome
    \* ---- the exploration graph (Exploration) ----
    states,                      \* self.states: state name -> State
    init_state_name,             \* self.init_state_name
    pre_states,                  \* self.states before the last call
    pre_init_state_name,         \* self.init_state_name before the last call
    op,                          \* the last call: its name, arguments, outcome
    title,                       \* self.title
    category,                    \* self.category
    objective,                   \* self.objective
    \* ---- the merge verifier (ExplorationChangeMergeVerifier) ----
    added_state_names,           \* self.added_state_names
    deleted_state_names,         \* self.deleted_state_names
    new_to_old_state_names,      \* self.new_to_old_state_names
    changed_properties,          \* self.changed_properties
    changed_translations,        \* self.changed_translations
    composite_change_list,       \* what the constructor has read: the number
                                 \* of changes and the commands among them
    current_exploration,         \* the head version: the base version with
                                 \* the composite change list applied
    merge_pc,                    \* "init", "loop" or "done"
    remaining,                   \* changes of change_list not yet read
    state_names_of_renamed_states,
    changes_are_mergeable,
    change,                      \* the loop variable of is_change_list_mergeable
    change_is_mergeable,
    merge_result,                \* the pair returned
    frontend_state_names         \* the states of the version change_list
                                 \* has reached: name -> name in the base
                                 \* version

migrate_vars == <<exploration_dict, exploration_schema_version, yaml_pc,
                  yaml_input, applied, yaml_error, runs>>
states_vars == <<versioned_exploration_states, pre_versioned, usfm_call>>
settings_vars == <<title, category, objective>>
graph_vars == <<states, init_state_name, pre_states, pre_init_state_name, op,
                settings_vars>>
verifier_vars == <<added_state_names, deleted_state_names,
                   new_to_old_state_names, changed_properties,
                   changed_translations>>
merge_vars == <<verifier_vars, composite_change_list, current_exploration,
                merge_pc, remaining, state_names_of_renamed_states,
                changes_are_mergeable, change, change_is_mergeable,
                merge_result, frontend_state_names>>
vars == <<migrate_vars, states_vars, graph_vars, merge_vars>>

(***************************************************************************)
(* Bounds of the model.                                                    *)
(***************************************************************************)
\* Input schema versions run from EARLIEST - VersionMargin to CURRENT + VersionMargin.
VersionMargin == 2
\* A migrated dict is fed back to the migration at most this many times.
MaxRuns == 2
\* update_states_from_model is called at most this many times on one dict.
MaxCalls == 2

(***************************************************************************)
(* Schema migration.                                                       *)
(***************************************************************************)
CURRENT_EXP_SCHEMA_VERSION == 54
EARLIEST_SUPPORTED_EXP_SCHEMA_VERSION == 46

\* The states blob is kept as the list of states conversions applied to it,
\* each named by its source states-schema version: a conversion is a
\* function of the blob that the model leaves uninterpreted.
convert_states_dict(n, states_dict) == Append(states_dict, n)

convert_v46_dict_to_v47_dict(d) ==
    [d EXCEPT !.schema_version = 47,
              !.states = convert_states_dict(41, d.states),
              !.states_schema_version = 42]

convert_v47_dict_to_v48_dict(d) ==
    [d EXCEPT !.schema_version = 48,
              !.states = convert_states_dict(42, d.states),
              !.states_schema_version = 43]

convert_v48_dict_to_v49_dict(d) ==
    [d EXCEPT !.schema_version = 49,
              !.states = convert_states_dict(43, d.states),
              !.states_schema_version = 44]

convert_v49_dict_to_v50_dict(d) ==
    [d EXCEPT !.schema_version = 50,
              !.states = convert_states_dict(44, d.states),
              !.states_schema_version = 45]

\* The v50 conversion leaving the states schema version where it was.
convert_v50_dict_to_v51_dict_stale(d) ==
    [d EXCEPT !.schema_version = 51,
              !.states = convert_states_dict(45, d.states)]

convert_v50_dict_to_v51_dict(d) ==
    [d EXCEPT !.schema_version = 51,
              !.states = convert_states_dict(45, d.states),
              !.states_schema_version = 46]

convert_v51_dict_to_v52_dict(d) ==
    [d EXCEPT !.schema_version = 52,
              !.states = convert_states_dict(46, d.states),
              !.states_schema_version = 47]

convert_v52_dict_to_v53_dict(d) ==
    [d EXCEPT !.schema_version = 53,
              !.states = convert_states_dict(47, d.states),
              !.states_schema_version = 48]

convert_v53_dict_to_v54_dict(d) ==
    [d EXCEPT !.schema_version = 54,
              !.states = convert_states_dict(48, d.states),
              !.states_schema_version = 49]

\* The conversion called by the `if exploration_schema_version == n` block.
ConvertDict(n, d) ==
    CASE n = 46 -> convert_v46_dict_to_v47_dict(d)
      [] n = 47 -> convert_v47_dict_to_v48_dict(d)
      [] n = 48 -> convert_v48_dict_to_v49_dict(d)
      [] n = 49 -> convert_v49_dict_to_v50_dict(d)
      [] n = 50 -> convert_v50_dict_to_v51_dict(d)
      [] n = 51 -> convert_v51_dict_to_v52_dict(d)
      [] n = 52 -> convert_v52_dict_to_v53_dict(d)
      [] n = 53 -> convert_v53_dict_to_v54_dict(d)

\* The range check with its lower comparison made strict.
InSupportedRangeStrict(v) ==
    /\ EARLIEST_SUPPORTED_EXP_SCHEMA_VERSION < v
    /\ v <= CURRENT_EXP_SCHEMA_VERSION

\* The range check at the head of _migrate_to_latest_yaml_version.
InSupportedRange(v) ==
    /\ EARLIEST_SUPPORTED_EXP_SCHEMA_VERSION <= v
    /\ v <= CURRENT_EXP_SCHEMA_VERSION

\* The block test written as a lower bound instead of an equality.
BlockAppliesAtLeast(version, n) == version >= n

\* The test of one `if exploration_schema_version == n` block.
BlockApplies(version, n) == version = n

InputVersions ==
    (EARLIEST_SUPPORTED_EXP_SCHEMA_VERSION - VersionMargin) ..
        (CURRENT_EXP_SCHEMA_VERSION + VersionMargin)

\* The states schema versions a parsed YAML file may declare: the field is
\* read from the file and nothing ties it to schema_version.
InputStatesVersions == 41 .. 49

InputDicts ==
    [schema_version : InputVersions,
     states_schema_version : InputStatesVersions,
     states : {<<>>}]

IdleMigrate ==
    /\ exploration_dict = [schema_version |-> 0, states_schema_version |-> 0,
                           states |-> <<>>]
    /\ exploration_schema_version = 0
    /\ yaml_pc = "idle"
    /\ yaml_input = exploration_dict
    /\ applied = <<>>
    /\ yaml_error = FALSE
    /\ runs = 0

IdleStates ==
    /\ versioned_exploration_states = [states_schema_version |-> 0,
                                       states |-> <<>>]
    /\ pre_versioned = versioned_exploration_states
    /\ usfm_call = [version |-> 0, raised |-> FALSE, calls |-> 0]

IdleGraph ==
    /\ states = <<>>
    /\ init_state_name = ""
    /\ pre_states = <<>>
    /\ pre_init_state_name = ""
    /\ op = [name |-> "idle"]
    /\ title = ""
    /\ category = ""
    /\ objective = ""

IdleMerge ==
    /\ added_state_names = <<>>
    /\ deleted_state_names = <<>>
    /\ new_to_old_state_names = <<>>
    /\ changed_properties = <<>>
    /\ changed_translations = <<>>
    /\ composite_change_list = [len |-> 0, cmds |-> {}]
    /\ current_exploration = [title |-> "", states |-> <<>>]
    /\ merge_pc = "idle"
    /\ remaining = 0
    /\ state_names_of_renamed_states = <<>>
    /\ changes_are_mergeable = FALSE
    /\ change = [cmd |-> "none"]
    /\ change_is_mergeable = FALSE
    /\ merge_result = <<>>
    /\ frontend_state_names = <<>>

\* utils.dict_from_yaml(yaml_content): the parsed dict is the input.
InitMigrate ==
    /\ exploration_dict \in InputDicts
    /\ exploration_schema_version = 0
    /\ yaml_pc = "check"
    /\ yaml_input = exploration_dict
    /\ applied = <<>>
    /\ yaml_error = FALSE
    /\ runs = 1
    /\ IdleStates
    /\ IdleGraph
    /\ IdleMerge

\* exploration_schema_version = exploration_dict['schema_version'] and the
\* range check, which raises outside the supported range.
MigrateCheck ==
    /\ yaml_pc = "check"
    /\ exploration_schema_version' = exploration_dict.schema_version
    /\ IF InSupportedRange(exploration_dict.schema_version)
         THEN /\ yaml_pc' = "if46"
              /\ yaml_error' = FALSE
         ELSE /\ yaml_pc' = "done"
              /\ yaml_error' = TRUE
    /\ UNCHANGED <<merge_vars, exploration_dict, yaml_input, applied, runs, states_vars, graph_vars>>

BlockOf(pc) ==
    CASE pc = "if46" -> 46 [] pc = "if47" -> 47 [] pc = "if48" -> 48
      [] pc = "if49" -> 49 [] pc = "if50" -> 50 [] pc = "if51" -> 51
      [] pc = "if52" -> 52 [] pc = "if53" -> 53

NextBlock(pc) ==
    CASE pc = "if46" -> "if47" [] pc = "if47" -> "if48" [] pc = "if48" -> "if49"
      [] pc = "if49" -> "if50" [] pc = "if50" -> "if51" [] pc = "if51" -> "if52"
      [] pc = "if52" -> "if53" [] pc = "if53" -> "return"

Blocks == {"if46", "if47", "if48", "if49", "if50", "if51", "if52", "if53"}

\* One `if exploration_schema_version == n:` block whose test holds: the
\* conversion is applied and the local version is advanced.
MigrateBlockTaken ==
    /\ yaml_pc \in Blocks
    /\ BlockApplies(exploration_schema_version, BlockOf(yaml_pc))
    /\ exploration_dict' = ConvertDict(BlockOf(yaml_pc), exploration_dict)
    /\ exploration_schema_version' = BlockOf(yaml_pc) + 1
    /\ applied' = Append(applied, BlockOf(yaml_pc))
    /\ yaml_pc' = NextBlock(yaml_pc)
    /\ UNCHANGED <<merge_vars, yaml_input, yaml_error, runs, states_vars, graph_vars>>

\* One `if` block whose test fails: control falls to the next block.
MigrateBlockSkipped ==
    /\ yaml_pc \in Blocks
    /\ ~BlockApplies(exploration_schema_version, BlockOf(yaml_pc))
    /\ yaml_pc' = NextBlock(yaml_pc)
    /\ UNCHANGED <<merge_vars, exploration_dict, exploration_schema_version, yaml_input,
                   applied, yaml_error, runs, states_vars, graph_vars>>

\* return exploration_dict
MigrateReturn ==
    /\ yaml_pc = "return"
    /\ yaml_pc' = "done"
    /\ UNCHANGED <<merge_vars, exploration_dict, exploration_schema_version, yaml_input,
                   applied, yaml_error, runs, states_vars, graph_vars>>

\* The returned dict is serialised and migrated again.
MigrateAgain ==
    /\ yaml_pc = "done"
    /\ ~yaml_error
    /\ runs < MaxRuns
    /\ runs' = runs + 1
    /\ yaml_input' = exploration_dict
    /\ applied' = <<>>
    /\ exploration_schema_version' = 0
    /\ yaml_pc' = "check"
    /\ UNCHANGED <<merge_vars, exploration_dict, yaml_error, states_vars, graph_vars>>

NextMigrate ==
    \/ MigrateCheck
    \/ MigrateBlockTaken
    \/ MigrateBlockSkipped
    \/ MigrateReturn
    \/ MigrateAgain

SpecMigrate == InitMigrate /\ [][NextMigrate]_vars

(***************************************************************************)
(* Exploration.update_states_from_model                                    *)
(***************************************************************************)
\* The states conversions the class defines: _convert_states_v41_dict_to_
\* v42_dict up to _convert_states_v48_dict_to_v49_dict.  getattr raises
\* AttributeError for any other version.
HasStatesConversion(n) == 41 <= n /\ n <= 48

StatesVersions == (41 - VersionMargin) .. (48 + VersionMargin)

InitStates ==
    /\ versioned_exploration_states \in
           [states_schema_version : StatesVersions, states : {<<>>}]
    /\ pre_versioned = versioned_exploration_states
    /\ usfm_call = [version |-> 0, raised |-> FALSE, calls |-> 0]
    /\ IdleMigrate
    /\ IdleGraph
    /\ IdleMerge

\* The whole call: the version field is written first, then the conversion
\* function is looked up (which raises when there is none) and applied.
UpdateStatesFromModel(current_states_schema_version) ==
    /\ usfm_call.calls < MaxCalls
    /\ pre_versioned' = versioned_exploration_states
    /\ LET bumped == [versioned_exploration_states EXCEPT
                          !.states_schema_version =
                              current_states_schema_version + 1]
       IN IF HasStatesConversion(current_states_schema_version)
            THEN /\ versioned_exploration_states' =
                        [bumped EXCEPT !.states = convert_states_dict(
                            current_states_schema_version, bumped.states)]
                 /\ usfm_call' = [version |-> current_states_schema_version,
                                  raised |-> FALSE,
                                  calls |-> usfm_call.calls + 1]
            ELSE /\ versioned_exploration_states' = bumped
                 /\ usfm_call' = [version |-> current_states_schema_version,
                                  raised |-> TRUE,
                                  calls |-> usfm_call.calls + 1]
    /\ UNCHANGED <<merge_vars, migrate_vars, graph_vars>>

NextStates ==
    \E n \in StatesVersions : UpdateStatesFromModel(n)

SpecStates == InitStates /\ [][NextStates]_vars

(***************************************************************************)
(* The exploration graph.                                                  *)
(*                                                                         *)
(* A State is kept as its card_is_checkpoint flag, the id of its           *)
(* interaction, the outcomes of its answer groups in order, and its        *)
(* default outcome: a list that is empty when default_outcome is None.     *)
(* An outcome is its dest and its labelled_as_correct flag.                *)
(***************************************************************************)
\* The state names in use.
Names == {"A", "B", "C"}

\* A name that utils.require_valid_name rejects.
InvalidName == ""

\* At most this many outcomes in a graph loaded by from_dict.
MaxOutcomes == 2

\* Exploration._validate_state_name
IsValidName(name) == name # InvalidName

\* InteractionInstance.is_terminal
IsTerminal(state) == state.interaction_id = "EndExploration"

\* InteractionInstance.get_all_outcomes: the answer groups' outcomes, then
\* the default outcome when there is one.
get_all_outcomes(state) == state.answer_groups \o state.default_outcome

\* State.create_default_state(state_name): no interaction, no answer group,
\* a default outcome that loops back to the state, not a checkpoint.
create_default_state(state_name) ==
    [card_is_checkpoint |-> FALSE,
     interaction_id |-> "None",
     answer_groups |-> <<>>,
     default_outcome |-> <<[dest |-> state_name,
                            labelled_as_correct |-> FALSE]>>]

Graph(s, i) == [states |-> s, init_state_name |-> i]

Returned(g) == [graph |-> g, raised |-> FALSE]
Raised(g) == [graph |-> g, raised |-> TRUE]

\* `if outcome.dest == old: outcome.dest = new` over a list of outcomes.
RedirectOutcomes(outcomes, old, new) ==
    [i \in DOMAIN outcomes |->
        IF outcomes[i].dest = old
          THEN [outcomes[i] EXCEPT !.dest = new]
          ELSE outcomes[i]]

\* The same loop over all outcomes of one state.
RedirectState(state, old, new) ==
    [state EXCEPT
        !.answer_groups = RedirectOutcomes(state.answer_groups, old, new),
        !.default_outcome = RedirectOutcomes(state.default_outcome, old, new)]

\* update_init_state_name with the two flag values exchanged.
update_init_state_name_swapped(g, name) ==
    IF name \notin DOMAIN g.states
      THEN Raised(g)
      ELSE LET old_init_state_name == g.init_state_name
               set == IF old_init_state_name \in DOMAIN g.states
                        THEN [g.states EXCEPT
                                 ![old_init_state_name].card_is_checkpoint = TRUE]
                        ELSE g.states
           IN Returned(Graph(
                  [set EXCEPT ![name].card_is_checkpoint = FALSE], name))

\* update_init_state_name that leaves the old initial state a checkpoint.
update_init_state_name_keeping_old(g, name) ==
    IF name \notin DOMAIN g.states
      THEN Raised(g)
      ELSE Returned(Graph(
               [g.states EXCEPT ![name].card_is_checkpoint = TRUE], name))

\* Exploration.update_init_state_name
update_init_state_name(g, name) ==
    IF name \notin DOMAIN g.states
      THEN Raised(g)
      ELSE LET old_init_state_name == g.init_state_name
               cleared ==
                   IF old_init_state_name \in DOMAIN g.states
                     THEN [g.states EXCEPT
                              ![old_init_state_name].card_is_checkpoint = FALSE]
                     ELSE g.states
           IN Returned(Graph(
                  [cleared EXCEPT ![name].card_is_checkpoint = TRUE], name))

\* add_states with one loop: the names listed before the duplicate are
\* inserted when it raises.
add_states_one_loop(g, state_names) ==
    LET dups == {i \in DOMAIN state_names :
                    state_names[i] \in DOMAIN g.states}
        stop == IF dups = {} THEN Len(state_names) + 1
                ELSE CHOOSE i \in dups : \A j \in dups : i <= j
        new == {state_names[i] : i \in 1 .. (stop - 1)}
        inserted == Graph([n \in DOMAIN g.states \cup new |->
                              IF n \in new THEN create_default_state(n)
                              ELSE g.states[n]],
                          g.init_state_name)
    IN  IF dups = {} THEN Returned(inserted) ELSE Raised(inserted)

\* Exploration.add_states
add_states(g, state_names) ==
    IF \E i \in DOMAIN state_names : state_names[i] \in DOMAIN g.states
      THEN Raised(g)
      ELSE LET new == {state_names[i] : i \in DOMAIN state_names}
           IN Returned(Graph(
                  [n \in DOMAIN g.states \cup new |->
                      IF n \in new THEN create_default_state(n)
                      ELSE g.states[n]],
                  g.init_state_name))

\* rename_state that redirects the outcomes of the other states only.
rename_state_others(g, old_state_name, new_state_name) ==
    IF old_state_name \notin DOMAIN g.states
      THEN Raised(g)
    ELSE IF old_state_name # new_state_name
            /\ new_state_name \in DOMAIN g.states
      THEN Raised(g)
    ELSE IF old_state_name = new_state_name
      THEN Returned(g)
    ELSE IF ~IsValidName(new_state_name)
      THEN Raised(g)
    ELSE
      LET moved == [n \in (DOMAIN g.states \ {old_state_name})
                            \cup {new_state_name} |->
                       IF n = new_state_name THEN g.states[old_state_name]
                       ELSE g.states[n]]
          g1 == Graph(moved, g.init_state_name)
          g2 == IF g.init_state_name = old_state_name
                  THEN update_init_state_name(g1, new_state_name).graph
                  ELSE g1
      IN Returned(Graph(
             [n \in DOMAIN g2.states |->
                 IF n = new_state_name THEN g2.states[n]
                 ELSE RedirectState(g2.states[n], old_state_name,
                                    new_state_name)],
             g2.init_state_name))

\* Exploration.rename_state
rename_state(g, old_state_name, new_state_name) ==
    IF old_state_name \notin DOMAIN g.states
      THEN Raised(g)
    ELSE IF old_state_name # new_state_name
            /\ new_state_name \in DOMAIN g.states
      THEN Raised(g)
    ELSE IF old_state_name = new_state_name
      THEN Returned(g)
    ELSE IF ~IsValidName(new_state_name)
      THEN Raised(g)
    ELSE
      LET \* self.states[new] = copy.deepcopy(self.states[old]); del ...
          moved == [n \in (DOMAIN g.states \ {old_state_name})
                            \cup {new_state_name} |->
                       IF n = new_state_name THEN g.states[old_state_name]
                       ELSE g.states[n]]
          g1 == Graph(moved, g.init_state_name)
          g2 == IF g.init_state_name = old_state_name
                  THEN update_init_state_name(g1, new_state_name).graph
                  ELSE g1
      IN Returned(Graph(
             [n \in DOMAIN g2.states |->
                 RedirectState(g2.states[n], old_state_name, new_state_name)],
             g2.init_state_name))

\* delete_state that redirects the dangling outcomes to the initial state.
delete_state_to_init(g, state_name) ==
    IF state_name \notin DOMAIN g.states
      THEN Raised(g)
    ELSE IF g.init_state_name = state_name
      THEN Raised(g)
    ELSE Returned(Graph(
             [n \in DOMAIN g.states \ {state_name} |->
                 RedirectState(g.states[n], state_name, g.init_state_name)],
             g.init_state_name))

\* delete_state that leaves the outcomes into the deleted state as they
\* are.
delete_state_dangling(g, state_name) ==
    IF state_name \notin DOMAIN g.states
      THEN Raised(g)
    ELSE IF g.init_state_name = state_name
      THEN Raised(g)
    ELSE Returned(Graph(
             [n \in DOMAIN g.states \ {state_name} |-> g.states[n]],
             g.init_state_name))

\* Exploration.delete_state
delete_state(g, state_name) ==
    IF state_name \notin DOMAIN g.states
      THEN Raised(g)
    ELSE IF g.init_state_name = state_name
      THEN Raised(g)
    ELSE Returned(Graph(
             [n \in DOMAIN g.states \ {state_name} |->
                 RedirectState(g.states[n], state_name, n)],
             g.init_state_name))

(***************************************************************************)
(* The graphs Exploration.from_dict builds: any set of states, the initial *)
(* state among them, any checkpoint flags and any outcomes; a dest is a    *)
(* name that need not be a state of the graph.                             *)
(***************************************************************************)
EdgesOf(nodes, lacs) ==
    [src : nodes, kind : {"answer_group", "default_outcome"},
     dest : Names, labelled_as_correct : lacs]

\* The outcomes of a graph are listed state by state: the order in which
\* the states are listed does not show in the graph, the order of the
\* answer groups of one state does.
\* One list for each graph: the sources appear in the order of `rank`, the
\* default outcome of a state after its answer groups.
Canonical(edges, rank) ==
    \A i, j \in DOMAIN edges :
          i < j => /\ rank[edges[i].src] <= rank[edges[j].src]
                   /\ (edges[i].src = edges[j].src
                          => edges[i].kind # "default_outcome")

\* An enumeration of the names.
NameRank == CHOOSE f \in [Names -> 1 .. Cardinality(Names)] :
                \A a, b \in Names : a # b => f[a] # f[b]

EdgeLists(nodes, lacs, max) ==
    {edges \in UNION {[1 .. k -> EdgesOf(nodes, lacs)] : k \in 0 .. max} :
        Canonical(edges, NameRank)}

OutcomesFrom(edges, n, kind) ==
    LET Mine(e) == e.src = n /\ e.kind = kind
        mine == SelectSeq(edges, Mine)
    IN [i \in DOMAIN mine |->
           [dest |-> mine[i].dest,
            labelled_as_correct |-> mine[i].labelled_as_correct]]


StatesFrom(nodes, edges, checkpoint, interaction) ==
    [n \in nodes |->
        [card_is_checkpoint |-> checkpoint[n],
         interaction_id |-> interaction[n],
         answer_groups |-> OutcomesFrom(edges, n, "answer_group"),
         default_outcome |-> OutcomesFrom(edges, n, "default_outcome")]]

CurrentGraph == Graph(states, init_state_name)
PreGraph == Graph(pre_states, pre_init_state_name)

\* The settings of an exploration that has a title, a category and an
\* objective.
SettingsFilledIn ==
    /\ title = "Title"
    /\ category = "Category"
    /\ objective = "Objective"

InitGraph ==
    /\ \E nodes \in SUBSET Names \ {{}} :
         \E edges \in EdgeLists(nodes, {FALSE}, MaxOutcomes) :
           \E checkpoint \in [nodes -> BOOLEAN] :
             /\ states = StatesFrom(nodes, edges, checkpoint,
                                    [n \in nodes |-> "TextInput"])
             /\ init_state_name \in nodes
    /\ pre_states = states
    /\ pre_init_state_name = init_state_name
    /\ op = [name |-> "from_dict", args |-> <<>>, raised |-> FALSE]
    /\ SettingsFilledIn
    /\ IdleMigrate
    /\ IdleStates
    /\ IdleMerge

\* One call of a mutating method on a loaded exploration.
Call(name, args, result) ==
    /\ op.name = "from_dict"
    /\ pre_states' = states
    /\ pre_init_state_name' = init_state_name
    /\ states' = result.graph.states
    /\ init_state_name' = result.graph.init_state_name
    /\ op' = [name |-> name, args |-> args, raised |-> result.raised]
    /\ UNCHANGED <<settings_vars, merge_vars, migrate_vars, states_vars>>

NameLists == {<<n>> : n \in Names} \cup
             {<<n, m>> : n \in Names, m \in Names}

AddStates(state_names) ==
    Call("add_states", state_names, add_states(CurrentGraph, state_names))

RenameState(old_state_name, new_state_name) ==
    Call("rename_state", <<old_state_name, new_state_name>>,
         rename_state(CurrentGraph, old_state_name, new_state_name))

DeleteState(state_name) ==
    Call("delete_state", <<state_name>>,
         delete_state(CurrentGraph, state_name))

UpdateInitStateName(name) ==
    Call("update_init_state_name", <<name>>,
         update_init_state_name(CurrentGraph, name))

\* rename_state(a, b) followed, when it returned, by rename_state(b, a).
RenameThereAndBack(a, b) ==
    LET there == rename_state(CurrentGraph, a, b)
    IN /\ ~there.raised
       /\ Call("rename_there_and_back", <<a, b>>,
               rename_state(there.graph, b, a))

NextGraph ==
    \/ \E state_names \in NameLists : AddStates(state_names)
    \/ \E old \in Names, new \in Names \cup {InvalidName} :
          RenameState(old, new)
    \/ \E n \in Names : DeleteState(n)
    \/ \E n \in Names : UpdateInitStateName(n)
    \/ \E a \in Names, b \in Names : RenameThereAndBack(a, b)

SpecGraph == InitGraph /\ [][NextGraph]_vars

(***************************************************************************)
(* Exploration.validate: the checks on the graph and, in strict mode, on   *)
(* the title, the category and the objective.  State.validate, the type    *)
(* checks of the settings, the parameters and the refresher exploration    *)
(* ids are outside the model.                                              *)
(***************************************************************************)
\* At most this many outcomes in a graph that is validated.
MaxEdges == 3

\* The checkpoint count check: `if not 1 <= checkpoint_count <= 8`.
MIN_CHECKPOINTS == 1
\* An upper limit that is one too large.
MAX_CHECKPOINTS_off_by_one == MIN_CHECKPOINTS + 8
MAX_CHECKPOINTS == 8

Range(seq) == {seq[i] : i \in DOMAIN seq}

RECURSIVE SetToSeq(_)
\* The members of a set in the order a dict iteration visits them.
SetToSeq(S) ==
    IF S = {} THEN <<>>
    ELSE LET x == CHOOSE y \in S : TRUE
         IN <<x>> \o SetToSeq(S \ {x})

\* The bypass scan that gives up after the first outcome of a state.
ScanForTerminalFirstOnly(g, outcomes, i, queue, processed) ==
    IF outcomes = <<>>
      THEN [queue |-> queue, found |-> FALSE]
    ELSE IF IsTerminal(g.states[outcomes[1].dest])
      THEN [queue |-> queue, found |-> TRUE]
    ELSE IF outcomes[1].dest \notin Range(queue)
            /\ outcomes[1].dest \notin processed
      THEN [queue |-> Append(queue, outcomes[1].dest), found |-> FALSE]
    ELSE [queue |-> queue, found |-> FALSE]

RECURSIVE ScanForTerminal(_, _, _, _, _)
\* `for outcome in all_outcomes` of the bypass search, from the i-th
\* outcome on: stops at the first outcome that leads to a terminal state,
\* queues the other destinations that are new.
ScanForTerminal(g, outcomes, i, queue, processed) ==
    IF i > Len(outcomes)
      THEN [queue |-> queue, found |-> FALSE]
    ELSE LET dest_state == outcomes[i].dest
         IN IF IsTerminal(g.states[dest_state])
              THEN [queue |-> queue, found |-> TRUE]
            ELSE IF dest_state \notin Range(queue)
                    /\ dest_state \notin processed
              THEN ScanForTerminal(g, outcomes, i + 1,
                                   Append(queue, dest_state), processed)
            ELSE ScanForTerminal(g, outcomes, i + 1, queue, processed)

RECURSIVE BypassSearch(_, _, _, _)
\* The `while curr_queue` loop run for one excluded checkpoint: TRUE when
\* the loop raises.
BypassSearch(g, state_name_to_exclude, curr_queue, processed_state_names) ==
    IF curr_queue = <<>>
      THEN FALSE
    ELSE IF Head(curr_queue) = state_name_to_exclude
      THEN BypassSearch(g, state_name_to_exclude, Tail(curr_queue),
                        processed_state_names)
    ELSE LET curr_state_name == Head(curr_queue)
             rest == Tail(curr_queue)
         IN IF curr_state_name \in processed_state_names
              THEN BypassSearch(g, state_name_to_exclude, rest,
                                processed_state_names)
            ELSE LET scan == ScanForTerminal(
                         g, get_all_outcomes(g.states[curr_state_name]), 1,
                         rest, processed_state_names \cup {curr_state_name})
                 IN IF scan.found
                      THEN TRUE
                      ELSE BypassSearch(
                               g, state_name_to_exclude, scan.queue,
                               processed_state_names \cup {curr_state_name})

\* The non-initial checkpoints that the bypass check raises for.
BypassableCheckpoints(g) ==
    {c \in DOMAIN g.states :
        /\ c # g.init_state_name
        /\ g.states[c].card_is_checkpoint
        /\ BypassSearch(g, c, <<g.init_state_name>>, {})}

RECURSIVE AppendNew(_, _, _, _)
\* `for outcome in all_outcomes: if dest not in curr_queue and dest not in
\* processed_queue: curr_queue.append(dest)`
AppendNew(outcomes, i, queue, processed) ==
    IF i > Len(outcomes)
      THEN queue
    ELSE IF outcomes[i].dest \notin Range(queue)
            /\ outcomes[i].dest \notin processed
      THEN AppendNew(outcomes, i + 1, Append(queue, outcomes[i].dest),
                     processed)
    ELSE AppendNew(outcomes, i + 1, queue, processed)

RECURSIVE ForwardSearchThroughTerminal(_, _, _)
\* The forward search without the test `if not curr_state.interaction
\* .is_terminal`.
ForwardSearchThroughTerminal(g, curr_queue, processed_queue) ==
    IF curr_queue = <<>>
      THEN processed_queue
    ELSE LET curr_state_name == Head(curr_queue)
             rest == Tail(curr_queue)
         IN IF curr_state_name \in processed_queue
              THEN ForwardSearchThroughTerminal(g, rest, processed_queue)
            ELSE ForwardSearchThroughTerminal(
                     g,
                     AppendNew(get_all_outcomes(g.states[curr_state_name]), 1,
                               rest, processed_queue \cup {curr_state_name}),
                     processed_queue \cup {curr_state_name})

RECURSIVE ForwardSearch(_, _, _)
\* The loop of _verify_all_states_reachable: the states it processes.
ForwardSearch(g, curr_queue, processed_queue) ==
    IF curr_queue = <<>>
      THEN processed_queue
    ELSE LET curr_state_name == Head(curr_queue)
             rest == Tail(curr_queue)
         IN IF curr_state_name \in processed_queue
              THEN ForwardSearch(g, rest, processed_queue)
            ELSE IF IsTerminal(g.states[curr_state_name])
              THEN ForwardSearch(g, rest,
                                 processed_queue \cup {curr_state_name})
            ELSE ForwardSearch(
                     g,
                     AppendNew(get_all_outcomes(g.states[curr_state_name]), 1,
                               rest, processed_queue \cup {curr_state_name}),
                     processed_queue \cup {curr_state_name})

\* Exploration._verify_all_states_reachable: the states it reports; it
\* raises when there is one.
verify_all_states_reachable(g) ==
    DOMAIN g.states \ ForwardSearch(g, <<g.init_state_name>>, {})

RECURSIVE BackwardSearchNonTerminal(_, _, _)
\* The backward search that takes up only states that are not terminal.
BackwardSearchNonTerminal(g, curr_queue, processed_queue) ==
    IF curr_queue = <<>>
      THEN processed_queue
    ELSE LET curr_state_name == Head(curr_queue)
             rest == Tail(curr_queue)
         IN IF curr_state_name \in processed_queue
                \/ IsTerminal(g.states[curr_state_name])
              THEN BackwardSearchNonTerminal(g, rest, processed_queue)
            ELSE LET done == processed_queue \cup {curr_state_name}
                     sources ==
                         {n \in DOMAIN g.states :
                             /\ n \notin Range(rest)
                             /\ n \notin done
                             /\ \E i \in DOMAIN get_all_outcomes(g.states[n]) :
                                   get_all_outcomes(g.states[n])[i].dest
                                       = curr_state_name}
                 IN BackwardSearchNonTerminal(g, rest \o SetToSeq(sources),
                                              done)

RECURSIVE BackwardSearch(_, _, _)
\* The loop of _verify_no_dead_ends: the states it processes.
BackwardSearch(g, curr_queue, processed_queue) ==
    IF curr_queue = <<>>
      THEN processed_queue
    ELSE LET curr_state_name == Head(curr_queue)
             rest == Tail(curr_queue)
         IN IF curr_state_name \in processed_queue
              THEN BackwardSearch(g, rest, processed_queue)
            ELSE LET done == processed_queue \cup {curr_state_name}
                     sources ==
                         {n \in DOMAIN g.states :
                             /\ n \notin Range(rest)
                             /\ n \notin done
                             /\ \E i \in DOMAIN get_all_outcomes(g.states[n]) :
                                   get_all_outcomes(g.states[n])[i].dest
                                       = curr_state_name}
                 IN BackwardSearch(g, rest \o SetToSeq(sources), done)

\* Exploration._verify_no_dead_ends: the states it reports; it raises when
\* there is one.
verify_no_dead_ends(g) ==
    DOMAIN g.states \
        BackwardSearch(
            g, SetToSeq({n \in DOMAIN g.states : IsTerminal(g.states[n])}),
            {})

\* The self-loop check that looks at the default outcomes only.
HasCorrectSelfLoopDefaultOnly(g) ==
    \E n \in DOMAIN g.states :
        \E i \in DOMAIN g.states[n].default_outcome :
            /\ g.states[n].default_outcome[i].dest = n
            /\ g.states[n].default_outcome[i].labelled_as_correct

\* A self-loop outcome that is labelled correct.
HasCorrectSelfLoop(g) ==
    \E n \in DOMAIN g.states :
        \E i \in DOMAIN get_all_outcomes(g.states[n]) :
            /\ get_all_outcomes(g.states[n])[i].dest = n
            /\ get_all_outcomes(g.states[n])[i].labelled_as_correct

CheckpointCount(g) ==
    Cardinality({n \in DOMAIN g.states : g.states[n].card_is_checkpoint})

Verdict(error, unreachable, dead_ends) ==
    [error |-> error, unreachable |-> unreachable, dead_ends |-> dead_ends,
     warnings_list |-> <<>>]

\* A warnings_list that holds the first finding only, as if the check that
\* makes it raised on the spot.
WarningsListFirstOnly(g, unreachable, dead_ends) ==
    IF unreachable # {} THEN <<"unreachable">>
    ELSE IF dead_ends # {} THEN <<"dead_ends">>
    ELSE IF g.title = "" THEN <<"title">>
    ELSE IF g.category = "" THEN <<"category">>
    ELSE IF g.objective = "" THEN <<"objective">>
    ELSE <<>>

\* warnings_list of validate as it is when the self-loop check starts: one
\* entry for each finding, in the order the checks append them.
WarningsList(g, unreachable, dead_ends) ==
    LET Found(w) == \/ w = "unreachable" /\ unreachable # {}
                    \/ w = "dead_ends" /\ dead_ends # {}
                    \/ w = "title" /\ g.title = ""
                    \/ w = "category" /\ g.category = ""
                    \/ w = "objective" /\ g.objective = ""
    IN SelectSeq(<<"unreachable", "dead_ends", "title", "category",
                   "objective">>, Found)

\* Exploration.validate: the error it raises ("none" when it returns), the
\* states that the two searches report and the warnings it has collected.
validate(g, strict) ==
    IF DOMAIN g.states = {}
      THEN Verdict("no_states", {}, {})
    ELSE IF g.init_state_name = ""
      THEN Verdict("no_init_state_name", {}, {})
    ELSE IF g.init_state_name \notin DOMAIN g.states
      THEN Verdict("init_state_not_in_states", {}, {})
    ELSE IF \E n \in DOMAIN g.states :
               \E i \in DOMAIN get_all_outcomes(g.states[n]) :
                   get_all_outcomes(g.states[n])[i].dest \notin DOMAIN g.states
      THEN Verdict("invalid_destination", {}, {})
    ELSE IF ~strict
      THEN Verdict("none", {}, {})
    ELSE IF ~g.states[g.init_state_name].card_is_checkpoint
      THEN Verdict("init_state_not_checkpoint", {}, {})
    ELSE IF \E n \in DOMAIN g.states :
               /\ IsTerminal(g.states[n])
               /\ n # g.init_state_name
               /\ g.states[n].card_is_checkpoint
      THEN Verdict("terminal_checkpoint", {}, {})
    ELSE IF ~(MIN_CHECKPOINTS <= CheckpointCount(g)
              /\ CheckpointCount(g) <= MAX_CHECKPOINTS)
      THEN Verdict("checkpoint_count", {}, {})
    ELSE IF BypassableCheckpoints(g) # {}
      THEN Verdict("bypassable", {}, {})
    ELSE LET unreachable == verify_all_states_reachable(g)
             dead_ends == verify_no_dead_ends(g)
             warnings_list == WarningsList(g, unreachable, dead_ends)
             Collected(error) ==
                 [Verdict(error, unreachable, dead_ends)
                     EXCEPT !.warnings_list = warnings_list]
         IN IF HasCorrectSelfLoop(g)
              THEN Collected("self_loop_correct")
            ELSE IF Len(warnings_list) > 0
              THEN Collected("warnings")
            ELSE Collected("none")

InteractionIds == {"TextInput", "EndExploration"}

\* validate compares state names for equality only, so the initial state
\* of a validated graph is given one fixed name.
ValidatedInitName == "A"

\* At most this many states in a chain of states that is validated.
MaxChain == 10

\* The name of the i-th state of a chain.
ChainStateName(i) == "S" \o ToString(i)

\* A chain of k states: every state but the last has one default outcome,
\* which leads to the next state; the last state has no outcome.
ChainStates(k, checkpoint, last_interaction_id) ==
    [n \in {ChainStateName(i) : i \in 1 .. k} |->
        LET i == CHOOSE j \in 1 .. k : ChainStateName(j) = n
        IN [card_is_checkpoint |-> checkpoint[i],
            interaction_id |-> IF i = k THEN last_interaction_id
                               ELSE "TextInput",
            answer_groups |-> <<>>,
            default_outcome |->
                IF i = k THEN <<>>
                ELSE <<[dest |-> ChainStateName(i + 1),
                        labelled_as_correct |-> FALSE]>>]]

\* The validated explorations: the graphs over Names with at most MaxEdges
\* outcomes, and the chains of at most MaxChain states.
InitValidate ==
    /\ \/ \E nodes \in {S \in SUBSET Names : ValidatedInitName \in S} :
            \E edges \in EdgeLists(nodes, {FALSE}, MaxEdges) :
              \E checkpoint \in [nodes -> BOOLEAN] :
                \E interaction \in [nodes -> InteractionIds] :
                  /\ states = StatesFrom(nodes, edges, checkpoint,
                                         interaction)
                  /\ init_state_name = ValidatedInitName
       \/ \E k \in 1 .. MaxChain :
            \E checkpoint \in [1 .. k -> BOOLEAN] :
              \E last_interaction_id \in InteractionIds :
                  /\ states = ChainStates(k, checkpoint, last_interaction_id)
                  /\ init_state_name = ChainStateName(1)
    /\ pre_states = states
    /\ pre_init_state_name = init_state_name
    /\ op = [name |-> "from_dict", args |-> <<>>, raised |-> FALSE]
    /\ SettingsFilledIn
    /\ IdleMigrate
    /\ IdleStates
    /\ IdleMerge

\* The exploration as validate reads it.
CurrentExploration ==
    [states |-> states, init_state_name |-> init_state_name,
     title |-> title, category |-> category, objective |-> objective]

\* One call of validate on a loaded exploration; the method assigns to no
\* field of the exploration.
\* new_states = self.states; new_states.pop(state_name_to_exclude): the
\* state goes from the exploration's own dict.
ExcludeInPlace(self_states, state_name_to_exclude) ==
    LET popped == [n \in DOMAIN self_states \ {state_name_to_exclude} |->
                      self_states[n]]
    IN  [self_states |-> popped, new_states |-> popped]

\* new_states = copy.deepcopy(self.states);
\* new_states.pop(state_name_to_exclude)
ExcludeFromCopy(self_states, state_name_to_exclude) ==
    LET new_states == self_states
    IN  [self_states |-> self_states,
         new_states |-> [n \in DOMAIN new_states \ {state_name_to_exclude}
                            |-> new_states[n]]]

\* The non-initial checkpoints, in the order the states dict gives them.
non_initial_checkpoint_state_names(g) ==
    SetToSeq({n \in DOMAIN g.states :
                 n # g.init_state_name /\ g.states[n].card_is_checkpoint})

RECURSIVE BypassCheckStates(_, _, _)
\* self.states after `for state_name_to_exclude in
\* non_initial_checkpoint_state_names`, which ends at the first checkpoint
\* it raises for.
BypassCheckStates(g, names, self_states) ==
    IF names = <<>>
      THEN self_states
      ELSE LET excluded == ExcludeFromCopy(self_states, Head(names))
           IN IF BypassSearch(g, Head(names), <<g.init_state_name>>, {})
                THEN excluded.self_states
                ELSE BypassCheckStates(g, Tail(names), excluded.self_states)

\* The checks of validate that come before the bypass check.
ErrorsBeforeBypassCheck ==
    {"no_states", "no_init_state_name", "init_state_not_in_states",
     "invalid_destination", "init_state_not_checkpoint",
     "terminal_checkpoint", "checkpoint_count"}

\* self.states when validate has returned or raised.
states_after_validate(g, strict) ==
    IF strict /\ validate(g, strict).error \notin ErrorsBeforeBypassCheck
      THEN BypassCheckStates(g, non_initial_checkpoint_state_names(g),
                             g.states)
      ELSE g.states

Validate(strict) ==
    /\ op.name = "from_dict"
    /\ LET verdict == validate(CurrentExploration, strict)
       IN op' = [name |-> "validate", args |-> <<>>, strict |-> strict,
                 raised |-> verdict.error # "none",
                 error |-> verdict.error,
                 unreachable |-> verdict.unreachable,
                 dead_ends |-> verdict.dead_ends,
                 warnings_list |-> verdict.warnings_list]
    /\ pre_states' = states
    /\ pre_init_state_name' = init_state_name
    /\ states' = states_after_validate(CurrentExploration, strict)
    /\ UNCHANGED <<merge_vars, init_state_name, settings_vars, migrate_vars,
                   states_vars>>

NextValidate == \E strict \in BOOLEAN : Validate(strict)

SpecValidate == InitValidate /\ [][NextValidate]_vars

(***************************************************************************)
(* Validation of explorations whose outcomes may be labelled correct and   *)
(* whose settings may be empty.                                            *)
(***************************************************************************)
InitStrict ==
    /\ \E nodes \in {S \in SUBSET Names : ValidatedInitName \in S} :
            \E edges \in EdgeLists(nodes, BOOLEAN, MaxOutcomes) :
              \E checkpoint \in [nodes -> BOOLEAN] :
                \E interaction \in [nodes -> InteractionIds] :
                  /\ states = StatesFrom(nodes, edges, checkpoint,
                                         interaction)
                  /\ init_state_name = ValidatedInitName
                  /\ title \in {"", "Title"}
                  /\ category \in {"", "Category"}
                  /\ objective \in {"", "Objective"}
    /\ pre_states = states
    /\ pre_init_state_name = init_state_name
    /\ op = [name |-> "from_dict", args |-> <<>>, raised |-> FALSE]
    /\ IdleMigrate
    /\ IdleStates
    /\ IdleMerge

SpecStrict == InitStrict /\ [][NextValidate]_vars

(***************************************************************************)
(* The two searches of strict validation, called on their own.  validate   *)
(* calls them once every dest is known to name a state, which is what the  *)
(* explorations here satisfy.                                              *)
(***************************************************************************)
InitSearch ==
    /\ \E nodes \in {S \in SUBSET Names : ValidatedInitName \in S} :
         \E edges \in EdgeLists(nodes, {FALSE}, MaxEdges) :
           \E interaction \in [nodes -> InteractionIds] :
               /\ \A i \in DOMAIN edges : edges[i].dest \in nodes
               /\ states = StatesFrom(nodes, edges,
                                      [n \in nodes |-> n = ValidatedInitName],
                                      interaction)
               /\ init_state_name = ValidatedInitName
    /\ pre_states = states
    /\ pre_init_state_name = init_state_name
    /\ op = [name |-> "from_dict", args |-> <<>>, raised |-> FALSE]
    /\ SettingsFilledIn
    /\ IdleMigrate
    /\ IdleStates
    /\ IdleMerge

\* One call of a search: the states it names in its error, and whether it
\* raises; the search assigns to no field of the exploration.
Search(name, reported) ==
    /\ op.name = "from_dict"
    /\ op' = [name |-> name, args |-> <<>>, raised |-> reported # {},
              reported |-> reported]
    /\ pre_states' = states
    /\ pre_init_state_name' = init_state_name
    /\ UNCHANGED <<merge_vars, states, init_state_name, settings_vars, migrate_vars, states_vars>>

VerifyAllStatesReachable ==
    Search("_verify_all_states_reachable",
           verify_all_states_reachable(CurrentGraph))

VerifyNoDeadEnds ==
    Search("_verify_no_dead_ends", verify_no_dead_ends(CurrentGraph))

NextSearch == VerifyAllStatesReachable \/ VerifyNoDeadEnds

SpecSearch == InitSearch /\ [][NextSearch]_vars

(***************************************************************************)
(* ExplorationChangeMergeVerifier.                                         *)
(*                                                                         *)
(* exp_at_change_list_version is the base version, current_exploration the *)
(* head version: the base version with the composite change list applied.  *)
(* The constructor reads the composite change list one change at a time;   *)
(* is_change_list_mergeable reads change_list one change at a time.        *)
(***************************************************************************)
MaxComposite == 2
MaxCandidate == 2

\* The state properties an edit_state_property change can name
\* (STATE_PROPERTY_*).
StateProperties ==
    {"param_changes", "content", "solicit_answer_details",
     "card_is_checkpoint", "recorded_voiceovers", "written_translations",
     "widget_id", "next_content_id_index", "linked_skill_id",
     "widget_customization_args", "answer_groups", "default_outcome",
     "confirmed_unclassified_answers", "hints", "solution"}

PROPERTIES_CONFLICTING_INTERACTION_ID_CHANGES ==
    {"widget_customization_args", "solution", "answer_groups"}

PROPERTIES_CONFLICTING_CUST_ARGS_CHANGES ==
    {"solution", "recorded_voiceovers", "answer_groups"}

PROPERTIES_CONFLICTING_ANSWER_GROUPS_CHANGES ==
    {"solution", "recorded_voiceovers", "widget_customization_args"}

PROPERTIES_CONFLICTING_SOLUTION_CHANGES ==
    {"answer_groups", "recorded_voiceovers", "widget_customization_args"}

\* The list without hints.
PROPERTIES_CONFLICTING_VOICEOVERS_CHANGES_but_hints ==
    {"content", "solution", "written_translations",
     "answer_groups", "default_outcome", "widget_customization_args"}

PROPERTIES_CONFLICTING_VOICEOVERS_CHANGES ==
    {"content", "solution", "hints", "written_translations",
     "answer_groups", "default_outcome", "widget_customization_args"}

\* The list without linked_skill_id.
NON_CONFLICTING_PROPERTIES_but_skill ==
    {"confirmed_unclassified_answers", "next_content_id_index",
     "card_is_checkpoint"}

\* The list without its last entry.
NON_CONFLICTING_PROPERTIES_but_last ==
    {"confirmed_unclassified_answers", "next_content_id_index",
     "linked_skill_id"}

NON_CONFLICTING_PROPERTIES ==
    {"confirmed_unclassified_answers", "next_content_id_index",
     "linked_skill_id", "card_is_checkpoint"}

\* Content ids are strings of characters: the verifier looks at their
\* prefixes.
ContentIds ==
    {<<"c", "o", "n", "t", "e", "n", "t">>,
     <<"c", "a", "_", "0">>,
     <<"d", "e", "f", "a", "u", "l", "t", "_",
       "o", "u", "t", "c", "o", "m", "e">>,
     <<"s", "o", "l", "u", "t", "i", "o", "n">>,
     <<"h", "i", "n", "t", "_", "1">>,
     <<"f", "e", "e", "d", "b", "a", "c", "k", "_", "1">>,
     <<"r", "u", "l", "e", "_", "i", "n", "p", "u", "t", "_", "2">>,
     <<"o", "t", "h", "e", "r">>}

\* content_id[:n]
Slice(content_id, n) ==
    SubSeq(content_id, 1, IF Len(content_id) < n THEN Len(content_id) ELSE n)

\* The property a content id belongs to; None when no identifier matches.
get_property_name_from_content_id(content_id) ==
    IF content_id = <<"c", "o", "n", "t", "e", "n", "t">>
        THEN "content"
    ELSE IF Slice(content_id, 3) = <<"c", "a", "_">>
        THEN "widget_customization_args"
    ELSE IF content_id = <<"d", "e", "f", "a", "u", "l", "t", "_",
                           "o", "u", "t", "c", "o", "m", "e">>
        THEN "default_outcome"
    ELSE IF content_id = <<"s", "o", "l", "u", "t", "i", "o", "n">>
        THEN "solution"
    ELSE IF Slice(content_id, 4) = <<"h", "i", "n", "t">>
        THEN "hints"
    ELSE IF \/ Slice(content_id, 8) =
                   <<"f", "e", "e", "d", "b", "a", "c", "k">>
            \/ Slice(content_id, 10) =
                   <<"r", "u", "l", "e", "_", "i", "n", "p", "u", "t">>
        THEN "answer_groups"
    ELSE "None"

\* ---- change lists ----
\* An ExplorationChange: its cmd and the attributes the cmd takes.
ExplorationChange(cmd, state_name, new_state_name, property_name, content_id, new_value) ==
    [cmd |-> cmd, state_name |-> state_name,
     new_state_name |-> new_state_name, property_name |-> property_name,
     content_id |-> content_id, new_value |-> new_value]

\* For rename_state, state_name is the old_state_name of the change.
old_state_name(c) == c.state_name

\* The values a property can take.
Values == {"v0", "v1"}

\* The properties whose values the verifier compares between the versions.
ComparedProperties == {"content", "widget_id", "solicit_answer_details"}

\* The exploration properties an edit_exploration_property change can name.
ExplorationProperties == {"title"}

\* ---- the two versions ----
BaseStateNames == {"A", "B"}

\* base_name is the name of the state in the base version, "" for a state
\* the composite change list added; renamed tells that a rename_state
\* change of the composite list renamed the state of the base version.
exp_at_change_list_version ==
    [title |-> "v0",
     states |-> [n \in BaseStateNames |->
                    [content |-> "v0", widget_id |-> "v0",
                     solicit_answer_details |-> "v0", base_name |-> n,
                     renamed |-> FALSE]]]

AddedState ==
    [content |-> "", widget_id |-> "", solicit_answer_details |-> "",
     base_name |-> "", renamed |-> FALSE]

Pop(dict, key) == [k \in DOMAIN dict \ {key} |-> dict[k]]

Put(dict, key, value) ==
    [k \in DOMAIN dict \cup {key} |-> IF k = key THEN value ELSE dict[k]]

\* The changes that can follow in a change list that was applied to
\* `exploration`: edit_state_property and add_written_translation changes
\* are drawn for the states `edited`, new values of the compared properties
\* from `values`. The initial state cannot be deleted, so one state remains.
ApplicableChanges(exploration, edited, values) ==
    LET names == DOMAIN exploration.states IN
      {ExplorationChange("add_state", n, "", "", <<>>, "") :
          n \in Names \ names}
      \cup {ExplorationChange("delete_state", n, "", "", <<>>, "") :
          n \in {m \in names : Cardinality(names) > 1}}
      \cup {ExplorationChange("rename_state", c[1], c[2], "", <<>>, "") :
          c \in {d \in names \X Names : d[2] = d[1] \/ d[2] \notin names}}
      \cup {ExplorationChange("edit_state_property", c[1], "", c[2], <<>>,
                              c[3]) :
          c \in {d \in edited \X StateProperties \X values :
                    d[2] \in ComparedProperties \/ d[3] = "v1"}}
      \cup {ExplorationChange("add_written_translation", c[1], "", "",
                              c[2], "") :
          c \in edited \X ContentIds}
      \cup {ExplorationChange("edit_exploration_property", "", "", c[1],
                              <<>>, c[2]) :
          c \in ExplorationProperties \X Values}

\* The exploration after one change of a change list is applied to it.
apply_change(exploration, c) ==
    LET sts == exploration.states IN
    IF c.cmd = "add_state"
        THEN [exploration EXCEPT
                 !.states = Put(sts, c.state_name, AddedState)]
    ELSE IF c.cmd = "delete_state"
        THEN [exploration EXCEPT !.states = Pop(sts, c.state_name)]
    ELSE IF c.cmd = "rename_state"
        THEN [exploration EXCEPT
                 !.states = Put(Pop(sts, old_state_name(c)),
                                c.new_state_name,
                                [sts[old_state_name(c)] EXCEPT
                                    !.renamed = @ \/ sts[old_state_name(c)]
                                                        .base_name # ""])]
    ELSE IF c.cmd = "edit_state_property"
            /\ c.property_name \in ComparedProperties
        THEN [exploration EXCEPT
                 !.states[c.state_name][c.property_name] = c.new_value]
    ELSE IF c.cmd = "edit_exploration_property"
        THEN [exploration EXCEPT ![c.property_name] = c.new_value]
    ELSE exploration

\* ---- the verifier ----
\* self.changed_properties[state_name] and self.changed_translations[
\* state_name]: a defaultdict(set), whose missing entries read as set().
Entry(dict, key) == IF key \in DOMAIN dict THEN dict[key] ELSE {}

\* A table that records nothing.
AddEntryNowhere(dict, key, value) == dict

AddEntry(dict, key, value) == Put(dict, key, Entry(dict, key) \cup {value})

InList(name, list) == \E i \in DOMAIN list : list[i] = name

\* list.remove(name): the first occurrence goes.
Remove(list, name) ==
    LET first == CHOOSE i \in DOMAIN list :
                    list[i] = name /\ \A j \in 1 .. (i - 1) : list[j] # name
    IN  [i \in 1 .. (Len(list) - 1) |->
            IF i < first THEN list[i] ELSE list[i + 1]]

\* The verifier's attributes as one record.
Verifier ==
    [added_state_names |-> added_state_names,
     deleted_state_names |-> deleted_state_names,
     new_to_old_state_names |-> new_to_old_state_names,
     changed_properties |-> changed_properties,
     changed_translations |-> changed_translations]

\* The name under which an edit of `state_name` is recorded.
RecordedName(self, state_name) ==
    IF state_name \in DOMAIN self.new_to_old_state_names
        THEN self.new_to_old_state_names[state_name]
        ELSE state_name

parse_delete_state(self, c) ==
    IF InList(c.state_name, self.added_state_names)
        THEN [self EXCEPT
                 !.added_state_names = Remove(@, c.state_name)]
        ELSE LET original_state_name == RecordedName(self, c.state_name) IN
             [self EXCEPT
                 !.new_to_old_state_names = Pop(@, c.state_name),
                 !.deleted_state_names = Append(@, original_state_name)]

parse_rename_state(self, c) ==
    IF InList(old_state_name(c), self.added_state_names)
        THEN [self EXCEPT
                 !.added_state_names =
                     Append(Remove(@, old_state_name(c)), c.new_state_name)]
    ELSE IF old_state_name(c) \in DOMAIN self.new_to_old_state_names
        THEN [self EXCEPT
                 !.new_to_old_state_names =
                     Put(Pop(@, old_state_name(c)), c.new_state_name,
                         @[old_state_name(c)])]
    ELSE [self EXCEPT
             !.new_to_old_state_names =
                 Put(@, c.new_state_name, old_state_name(c))]

\* _parse_exp_change: the verifier after it has read one composite change.
parse_exp_change(self, c) ==
    IF c.cmd = "add_state"
        THEN [self EXCEPT !.added_state_names = Append(@, c.state_name)]
    ELSE IF c.cmd = "delete_state"
        THEN parse_delete_state(self, c)
    ELSE IF c.cmd = "rename_state"
        THEN parse_rename_state(self, c)
    ELSE IF c.cmd = "edit_state_property"
        THEN [self EXCEPT
                 !.changed_properties =
                     AddEntry(@, RecordedName(self, c.state_name),
                              c.property_name)]
    ELSE IF c.cmd = "add_written_translation"
        THEN [self EXCEPT
                 !.changed_translations =
                     AddEntry(@, RecordedName(self, c.state_name),
                              get_property_name_from_content_id(
                                  c.content_id)),
                 !.changed_properties =
                     AddEntry(@, RecordedName(self, c.state_name),
                              "written_translations")]
    ELSE self

\* old_to_new_state_names of is_change_list_mergeable.
old_to_new_state_names(self) ==
    LET new_to_old == self.new_to_old_state_names
        olds == {new_to_old[n] : n \in DOMAIN new_to_old}
    IN  [o \in olds |-> CHOOSE n \in DOMAIN new_to_old : new_to_old[n] = o]

\* state_names_of_renamed_states.get(change.state_name) or
\* change.state_name
ResolvedName(renamed, state_name) ==
    IF state_name \in DOMAIN renamed /\ renamed[state_name] # ""
        THEN renamed[state_name]
        ELSE state_name

\* if not self.changed_properties[state_name]
nothing_changed(self, state_name) ==
    Entry(self.changed_properties, state_name) = {}

\* The properties whose branch ends with
\* `if not self.changed_properties[state_name]: change_is_mergeable = True`.
FallbackProperties ==
    {"content", "widget_id", "widget_customization_args", "answer_groups",
     "default_outcome", "hints", "solution", "solicit_answer_details",
     "recorded_voiceovers"}

\* The first `if` of the branch of property_name: the condition that is
\* specific to the property.
property_specific_condition(self, head, state_name, property_name) ==
    LET props == Entry(self.changed_properties, state_name)
        trans == Entry(self.changed_translations, state_name)
        old_exp_states == exp_at_change_list_version.states[state_name]
        current_exp_states == head.states[state_name]
        same_interaction ==
            old_exp_states.widget_id = current_exp_states.widget_id
    IN
    IF property_name = "content"
        THEN /\ old_exp_states.content = current_exp_states.content
             /\ "content" \notin trans
             /\ "recorded_voiceovers" \notin props
    ELSE IF property_name = "widget_id"
        THEN /\ same_interaction
             /\ props \cap PROPERTIES_CONFLICTING_INTERACTION_ID_CHANGES = {}
    ELSE IF property_name \in {"widget_customization_args", "answer_groups"}
        THEN /\ same_interaction
             /\ props \cap (PROPERTIES_CONFLICTING_CUST_ARGS_CHANGES
                              \cup {property_name}) = {}
             /\ property_name \notin trans
    ELSE IF property_name = "default_outcome"
        THEN /\ property_name \notin props
             /\ property_name \notin trans
    ELSE IF property_name \in NON_CONFLICTING_PROPERTIES
        THEN TRUE
    ELSE IF property_name = "hints"
        THEN /\ property_name \notin props
             /\ property_name \notin trans
    ELSE IF property_name = "solution"
        THEN /\ same_interaction
             /\ props \cap (PROPERTIES_CONFLICTING_CUST_ARGS_CHANGES
                              \cup {property_name}) = {}
             /\ property_name \notin trans
    ELSE IF property_name = "solicit_answer_details"
        THEN /\ same_interaction
             /\ old_exp_states.solicit_answer_details
                    = current_exp_states.solicit_answer_details
    ELSE IF property_name = "recorded_voiceovers"
        THEN props \cap (PROPERTIES_CONFLICTING_VOICEOVERS_CHANGES
                           \cup {property_name}) = {}
    ELSE FALSE

\* The branch of one candidate edit_state_property change, once its state
\* is known not to be renamed by the composite change list.
edit_state_property_is_mergeable(self, head, state_name, property_name) ==
    \/ property_specific_condition(self, head, state_name, property_name)
    \/ /\ property_name \in FallbackProperties
       /\ nothing_changed(self, state_name)

\* The first `if` of the add_written_translation branch.
translation_specific_condition(self, state_name, content_id) ==
    LET props == Entry(self.changed_properties, state_name)
        trans == Entry(self.changed_translations, state_name)
        changed_property == get_property_name_from_content_id(content_id)
    IN  changed_property \notin (props \cup trans)

add_written_translation_is_mergeable(self, state_name, content_id) ==
    \/ translation_specific_condition(self, state_name, content_id)
    \/ nothing_changed(self, state_name)

\* A rename map that takes old_state_name for the name of the base version.
renamed_after_unresolved(renamed, c) ==
    Put(Pop(renamed, old_state_name(c)), c.new_state_name, old_state_name(c))

\* state_names_of_renamed_states after a candidate rename_state change.
renamed_after(renamed, c) ==
    IF old_state_name(c) \in DOMAIN renamed
        THEN Put(Pop(renamed, old_state_name(c)), c.new_state_name,
                 renamed[old_state_name(c)])
        ELSE Put(renamed, c.new_state_name, old_state_name(c))

\* A verdict that does not look at the two versions.
edit_exploration_property_always_mergeable(head, property_name) == TRUE

\* The branch of one candidate edit_exploration_property change.
edit_exploration_property_is_mergeable(head, property_name) ==
    exp_at_change_list_version[property_name] = head[property_name]

\* A pass that ends the call without asking for a review.
return_False_False(renamed) ==
    [renamed |-> renamed, review |-> FALSE, mergeable |-> FALSE]

\* `return False, True` inside the loop.
return_False_True(renamed) ==
    [renamed |-> renamed, review |-> TRUE, mergeable |-> FALSE]

\* One pass of the loop over change_list: the rename map after it, whether
\* the function returns (False, True) from inside it, and change_is_mergeable.
loop_body(self, head, renamed, c) ==
    LET old_to_new == old_to_new_state_names(self)
        state_name == ResolvedName(renamed, c.state_name)
        pass(r, review, mergeable) ==
            [renamed |-> r, review |-> review, mergeable |-> mergeable]
    IN
    IF c.cmd = "rename_state"
        THEN LET r == renamed_after(renamed, c) IN
             pass(r, FALSE, r[c.new_state_name] \notin DOMAIN old_to_new)
    ELSE IF c.cmd = "edit_state_property"
        THEN IF state_name \in DOMAIN old_to_new
                 THEN return_False_True(renamed)
                 ELSE pass(renamed, FALSE,
                           edit_state_property_is_mergeable(
                               self, head, state_name, c.property_name))
    ELSE IF c.cmd = "add_written_translation"
        THEN IF state_name \in DOMAIN old_to_new
                 THEN return_False_True(renamed)
                 ELSE pass(renamed, FALSE,
                           add_written_translation_is_mergeable(
                               self, state_name, c.content_id))
    ELSE IF c.cmd \in {"mark_written_translation_as_needing_update",
                       "mark_written_translations_as_needing_update"}
        THEN pass(renamed, FALSE, TRUE)
    ELSE IF c.cmd = "edit_exploration_property"
        THEN pass(renamed, FALSE,
                  edit_exploration_property_is_mergeable(head,
                                                         c.property_name))
    ELSE pass(renamed, FALSE, FALSE)

\* ---- the constructor and is_change_list_mergeable, step by step ----
NoChange == ExplorationChange("none", "", "", "", <<>>, "")

InitMerge ==
    /\ added_state_names = <<>>
    /\ deleted_state_names = <<>>
    /\ new_to_old_state_names = <<>>
    /\ changed_properties = <<>>
    /\ changed_translations = <<>>
    /\ composite_change_list = [len |-> 0, cmds |-> {}]
    /\ current_exploration = exp_at_change_list_version
    /\ merge_pc = "init"
    /\ remaining = 0
    /\ state_names_of_renamed_states = <<>>
    /\ changes_are_mergeable = FALSE
    /\ change = NoChange
    /\ change_is_mergeable = FALSE
    /\ merge_result = <<>>
    /\ frontend_state_names = [n \in BaseStateNames |-> n]
    /\ IdleMigrate
    /\ IdleStates
    /\ IdleGraph

\* The base names of the states that the edit_state_property and
\* add_written_translation changes of the composite change list edit.
CompositeEditedStates == {"A"}

\* The changes that can come next in composite_change_list.
CompositeChanges(exploration) ==
    ApplicableChanges(
        exploration,
        {n \in DOMAIN exploration.states :
            exploration.states[n].base_name \in CompositeEditedStates},
        Values)

\* __init__, one pass of `for change in composite_change_list`, c being one
\* of CompositeChanges(current_exploration).
ParseExpChange(c) ==
    /\ merge_pc = "init"
    /\ composite_change_list.len < MaxComposite
    /\ LET self == parse_exp_change(Verifier, c) IN
         /\ added_state_names' = self.added_state_names
         /\ deleted_state_names' = self.deleted_state_names
         /\ new_to_old_state_names' = self.new_to_old_state_names
         /\ changed_properties' = self.changed_properties
         /\ changed_translations' = self.changed_translations
    /\ current_exploration' = apply_change(current_exploration, c)
    /\ composite_change_list' =
           [len |-> composite_change_list.len + 1,
            cmds |-> composite_change_list.cmds \cup {c.cmd}]
    /\ UNCHANGED <<merge_pc, remaining, state_names_of_renamed_states,
                   changes_are_mergeable, change, change_is_mergeable,
                   merge_result, frontend_state_names, migrate_vars,
                   states_vars, graph_vars>>

hard_rejection_added_only(self) == self.added_state_names # <<>>

\* if self.added_state_names or self.deleted_state_names
hard_rejection(self) ==
    self.added_state_names # <<>> \/ self.deleted_state_names # <<>>

\* The call of is_change_list_mergeable with a change_list of n changes, up
\* to the loop.
IsChangeListMergeable(n) ==
    /\ merge_pc = "init"
    /\ remaining' = n
    /\ IF hard_rejection(Verifier)
         THEN merge_result' = <<FALSE, TRUE>> /\ merge_pc' = "done"
         ELSE merge_result' = <<>> /\ merge_pc' = "loop"
    /\ changes_are_mergeable' = FALSE
    /\ state_names_of_renamed_states' = <<>>
    /\ UNCHANGED <<verifier_vars, composite_change_list, current_exploration,
                   change, change_is_mergeable, frontend_state_names,
                   migrate_vars, states_vars, graph_vars>>

\* The state names of the version the candidate change list has reached:
\* the base names, with the renames of the candidate list so far.
FrontendNames(renamed) ==
    (BaseStateNames \ {renamed[n] : n \in DOMAIN renamed})
        \cup DOMAIN renamed

\* The changes that can come next in change_list.
CandidateChanges(renamed) ==
    LET names == FrontendNames(renamed) IN
      ApplicableChanges([states |-> [n \in names |-> AddedState]],
                        names, {"v1"})
      \cup {ExplorationChange(c[1], c[2], "", "",
                              <<"c", "o", "n", "t", "e", "n", "t">>, "") :
              c \in {"mark_written_translation_as_needing_update",
                     "mark_written_translations_as_needing_update"}
                        \X names}

\* One pass of `for change in change_list`, with the return that ends it.
\* Between two passes `change` and change_is_mergeable are dead (the next
\* pass assigns both before it reads them): they are kept for the last
\* change read only. c is one of CandidateChanges(
\* state_names_of_renamed_states).
LoopBody(c) ==
    /\ merge_pc = "loop"
    /\ remaining > 0
    /\ LET p == loop_body(Verifier, current_exploration,
                          state_names_of_renamed_states, c) IN
         /\ state_names_of_renamed_states' = p.renamed
         /\ change_is_mergeable' = (p.mergeable /\ remaining = 1)
         /\ IF p.review
              THEN /\ merge_result' = <<FALSE, TRUE>>
                   /\ merge_pc' = "done"
                   /\ UNCHANGED changes_are_mergeable
            ELSE IF p.mergeable
              THEN /\ changes_are_mergeable' = TRUE
                   /\ UNCHANGED <<merge_result, merge_pc>>
            ELSE /\ changes_are_mergeable' = FALSE
                 /\ merge_result' = <<FALSE, FALSE>>
                 /\ merge_pc' = "done"
    /\ change' = IF merge_pc' = "done" \/ remaining = 1 THEN c ELSE NoChange
    /\ remaining' = remaining - 1
    /\ frontend_state_names' =
           IF c.cmd = "rename_state"
             THEN Put(Pop(frontend_state_names, old_state_name(c)),
                      c.new_state_name,
                      frontend_state_names[old_state_name(c)])
             ELSE frontend_state_names
    /\ UNCHANGED <<verifier_vars, composite_change_list, current_exploration,
                   migrate_vars, states_vars, graph_vars>>

\* A return that takes a list with no change in it for mergeable.
ReturnMergeableWhenEmpty ==
    /\ merge_pc = "loop"
    /\ remaining = 0
    /\ merge_result' = <<changes_are_mergeable \/ change = NoChange, FALSE>>
    /\ merge_pc' = "done"
    /\ UNCHANGED <<verifier_vars, composite_change_list, current_exploration,
                   remaining, state_names_of_renamed_states,
                   changes_are_mergeable, change, change_is_mergeable,
                   frontend_state_names, migrate_vars, states_vars,
                   graph_vars>>

\* A return that asks for a review of every list it answers for.
ReturnMergeableForReview ==
    /\ merge_pc = "loop"
    /\ remaining = 0
    /\ merge_result' = <<changes_are_mergeable, TRUE>>
    /\ merge_pc' = "done"
    /\ UNCHANGED <<verifier_vars, composite_change_list, current_exploration,
                   remaining, state_names_of_renamed_states,
                   changes_are_mergeable, change, change_is_mergeable,
                   frontend_state_names, migrate_vars, states_vars,
                   graph_vars>>

\* return changes_are_mergeable, False
ReturnMergeable ==
    /\ merge_pc = "loop"
    /\ remaining = 0
    /\ merge_result' = <<changes_are_mergeable, FALSE>>
    /\ merge_pc' = "done"
    /\ UNCHANGED <<verifier_vars, composite_change_list, current_exploration,
                   remaining, state_names_of_renamed_states,
                   changes_are_mergeable, change, change_is_mergeable,
                   frontend_state_names, migrate_vars, states_vars,
                   graph_vars>>

NextMerge ==
    \/ \E c \in CompositeChanges(current_exploration) : ParseExpChange(c)
    \/ \E n \in 0 .. MaxCandidate : IsChangeListMergeable(n)
    \/ \E c \in CandidateChanges(state_names_of_renamed_states) : LoopBody(c)
    \/ ReturnMergeable

SpecMerge == InitMerge /\ [][NextMerge]_vars

(***************************************************************************)
(* Claims about the graph.                                                 *)
(***************************************************************************)
Outcomes(g, n) == get_all_outcomes(g.states[n])

RECURSIVE ReachableAvoiding(_, _, _)
\* The states that a path of outcome edges from `seen` reaches without
\* entering the state `avoided`.
ReachableAvoiding(g, avoided, seen) ==
    LET next == seen \cup
                {d \in DOMAIN g.states \ {avoided} :
                    \E n \in seen : \E i \in DOMAIN Outcomes(g, n) :
                        Outcomes(g, n)[i].dest = d}
    IN IF next = seen THEN seen ELSE ReachableAvoiding(g, avoided, next)

\* A terminal state is reachable from the initial state without passing
\* through the non-initial checkpoint c.
CanBypass(g, c) ==
    /\ c \in DOMAIN g.states
    /\ c # g.init_state_name
    /\ g.states[c].card_is_checkpoint
    /\ \E t \in ReachableAvoiding(g, c, {g.init_state_name}) :
           IsTerminal(g.states[t])

\* C3: strict validation fails for every graph with a non-initial
\* checkpoint that some path from the initial state to a terminal state
\* avoids.
C3_BypassableCheckpointFails ==
    (/\ op.name = "validate"
     /\ op.strict
     /\ \E c \in DOMAIN states : CanBypass(CurrentGraph, c))
        => op.raised

C3_Witness ==
    /\ op.name = "validate"
    /\ op.strict
    /\ op.error = "bypassable"
    /\ \E c \in DOMAIN states :
          /\ CanBypass(CurrentGraph, c)
          /\ \E i \in DOMAIN Outcomes(CurrentGraph, init_state_name) :
                Outcomes(CurrentGraph, init_state_name)[i].dest = c
          /\ \E i \in DOMAIN Outcomes(CurrentGraph, c) :
                IsTerminal(states[Outcomes(CurrentGraph, c)[i].dest])


\* The state `n` of the current graph is the state `src` of the graph
\* before the call, with every dest equal to `from` replaced by to(n).
SameStateRedirected(n, src, from, to) ==
    /\ states[n].interaction_id = pre_states[src].interaction_id
    /\ Len(states[n].answer_groups) = Len(pre_states[src].answer_groups)
    /\ Len(states[n].default_outcome) = Len(pre_states[src].default_outcome)
    /\ \A i \in DOMAIN Outcomes(PreGraph, src) :
          LET before == Outcomes(PreGraph, src)[i]
              after == Outcomes(CurrentGraph, n)[i]
          IN /\ after.labelled_as_correct = before.labelled_as_correct
             /\ after.dest = IF before.dest = from THEN to ELSE before.dest

\* No dest of the graph before the call is the name `b`; this is so for
\* every name that is not a state when every dest names a state.
NoDestBefore(b) ==
    \A n \in DOMAIN pre_states : \A i \in DOMAIN Outcomes(PreGraph, n) :
        Outcomes(PreGraph, n)[i].dest # b

C5_DeleteCollapsesEdges ==
    LET z == op.args[1]
    IN /\ (op.name = "delete_state" /\ ~op.raised) =>
             /\ z \in DOMAIN pre_states
             /\ z # pre_init_state_name
             /\ DOMAIN states = DOMAIN pre_states \ {z}
             /\ init_state_name = pre_init_state_name
             /\ \A y \in DOMAIN states :
                   /\ SameStateRedirected(y, y, z, y)
                   /\ states[y].card_is_checkpoint
                          = pre_states[y].card_is_checkpoint
       /\ (/\ op.name = "delete_state"
           /\ z \in DOMAIN pre_states
           /\ z # pre_init_state_name) => ~op.raised

C5_Witness ==
    /\ op.name = "delete_state"
    /\ ~op.raised
    /\ \E y \in DOMAIN states :
          /\ y # init_state_name
          /\ \E i \in DOMAIN Outcomes(PreGraph, y) :
                /\ Outcomes(PreGraph, y)[i].dest = op.args[1]
                /\ Outcomes(CurrentGraph, y)[i].dest = y
          /\ \E i \in DOMAIN Outcomes(PreGraph, y) :
                /\ Outcomes(PreGraph, y)[i].dest \notin {op.args[1], y}
                /\ Outcomes(CurrentGraph, y)[i].dest
                       = Outcomes(PreGraph, y)[i].dest

\* C6: rename_state(old, new) with old # new, when it returns, moves the
\* state to the new name, replaces every dest equal to old by new in every
\* state, the renamed one included, changes no other dest, and moves the
\* initial state name with the state, whose card_is_checkpoint is then
\* true; rename_state(old, old) of a state changes nothing.
C6_RenameRewritesEdges ==
    LET old == op.args[1]
        new == op.args[2]
    IN /\ (op.name = "rename_state" /\ ~op.raised /\ old # new) =>
             /\ old \in DOMAIN pre_states
             /\ new \notin DOMAIN pre_states
             /\ DOMAIN states = (DOMAIN pre_states \ {old}) \cup {new}
             /\ \A n \in DOMAIN states \ {new} :
                   /\ SameStateRedirected(n, n, old, new)
                   /\ states[n].card_is_checkpoint
                          = pre_states[n].card_is_checkpoint
             /\ SameStateRedirected(new, old, old, new)
             /\ IF pre_init_state_name = old
                  THEN /\ init_state_name = new
                       /\ states[new].card_is_checkpoint
                  ELSE /\ init_state_name = pre_init_state_name
                       /\ states[new].card_is_checkpoint
                              = pre_states[old].card_is_checkpoint
       /\ (op.name = "rename_state" /\ old = new /\ old \in DOMAIN pre_states)
             => /\ ~op.raised
                /\ states = pre_states
                /\ init_state_name = pre_init_state_name

C6_Witness ==
    /\ op.name = "rename_state"
    /\ ~op.raised
    /\ op.args[1] # op.args[2]
    /\ op.args[1] = pre_init_state_name
    /\ ~pre_states[op.args[1]].card_is_checkpoint
    /\ states[op.args[2]].card_is_checkpoint
    /\ \E i \in DOMAIN Outcomes(PreGraph, op.args[1]) :
          /\ Outcomes(PreGraph, op.args[1])[i].dest = op.args[1]
          /\ Outcomes(CurrentGraph, op.args[2])[i].dest = op.args[2]
    /\ \E n \in DOMAIN states \ {op.args[2]} :
          \E i \in DOMAIN Outcomes(PreGraph, n) :
              /\ Outcomes(PreGraph, n)[i].dest = op.args[1]
              /\ Outcomes(CurrentGraph, n)[i].dest = op.args[2]

(***************************************************************************)
(* Claims about the migration chain.                                       *)
(***************************************************************************)
Last(s) == s[Len(s)]

\* C7: from every supported version V below the current one the conversions
\* V->V+1, ..., 53->54 are applied in increasing order, each exactly once;
\* after the step N->N+1 the document is at N+1 and the states schema at
\* N-4; the result is at schema 54 with states schema 49.
C7_MonotonicVersionChain ==
    /\ \A i \in 1 .. Len(applied) :
           /\ applied[i] = yaml_input.schema_version + i - 1
           /\ exploration_dict.states[Len(yaml_input.states) + i]
                  = applied[i] - 5
    /\ Len(exploration_dict.states) = Len(yaml_input.states) + Len(applied)
    /\ applied # <<>> =>
           /\ exploration_dict.schema_version = Last(applied) + 1
           /\ exploration_dict.states_schema_version = Last(applied) - 4
    /\ (yaml_pc = "done" /\ yaml_input.schema_version \in 46 .. 53) =>
           /\ ~yaml_error
           /\ Len(applied) = 54 - yaml_input.schema_version
           /\ exploration_dict.schema_version = 54
           /\ exploration_dict.states_schema_version = 49

C7_Witness ==
    /\ yaml_pc = "done"
    /\ yaml_input.schema_version = 46
    /\ applied = <<46, 47, 48, 49, 50, 51, 52, 53>>

\* C8: a document whose schema version is below 46 or above 54 makes the
\* migration fail without applying any conversion; 46 and 54 are accepted.
C8_UnsupportedVersionFails ==
    yaml_pc = "done" =>
        /\ (yaml_input.schema_version < 46 \/ yaml_input.schema_version > 54)
               => /\ yaml_error
                  /\ applied = <<>>
                  /\ exploration_dict = yaml_input
        /\ yaml_input.schema_version \in {46, 54} => ~yaml_error

C8_Witness ==
    /\ yaml_pc = "done"
    /\ yaml_error
    /\ yaml_input.schema_version = 55
    /\ applied = <<>>

\* C9: migrating a document that is already at the current version applies
\* no conversion and returns it unchanged, so migrating the output of a
\* migration once more changes nothing.
C9_CurrentVersionUnchanged ==
    (yaml_pc = "done" /\ yaml_input.schema_version = 54) =>
        /\ ~yaml_error
        /\ applied = <<>>
        /\ exploration_dict = yaml_input

C9_Witness ==
    /\ yaml_pc = "done"
    /\ runs = 2
    /\ exploration_dict.states # <<>>
    /\ exploration_dict = yaml_input

\* C10: a call of update_states_from_model that raises leaves its argument
\* as it was.
C10_NoSideEffectOnError ==
    usfm_call.raised => versioned_exploration_states = pre_versioned

(***************************************************************************)
(* Claims about the merge verifier.                                        *)
(***************************************************************************)
\* is_change_list_mergeable was called: it is in its loop or has returned.
MergeCalled == merge_pc \in {"loop", "done"}

\* The states of the head version that the composite change list added, and
\* the states of the base version that it deleted.
NetAddedStates ==
    {n \in DOMAIN current_exploration.states :
        current_exploration.states[n].base_name = ""}

NetDeletedStates ==
    {b \in BaseStateNames :
        \A n \in DOMAIN current_exploration.states :
            current_exploration.states[n].base_name # b}

\* The call returned (False, True) before it read any candidate change.
HardRejected ==
    merge_pc = "done" /\ merge_result = <<FALSE, TRUE>> /\ change = NoChange

ConflictGroup(property_name) ==
    IF property_name = "widget_customization_args"
        THEN PROPERTIES_CONFLICTING_CUST_ARGS_CHANGES
    ELSE IF property_name = "answer_groups"
        THEN PROPERTIES_CONFLICTING_ANSWER_GROUPS_CHANGES
    ELSE PROPERTIES_CONFLICTING_SOLUTION_CHANGES

C2_ConflictGroupsBlockMerge ==
    (/\ change.cmd = "edit_state_property"
     /\ change.property_name
            \in {"widget_customization_args", "answer_groups", "solution"}
     /\ change_is_mergeable)
        => LET state_name ==
                   ResolvedName(state_names_of_renamed_states,
                                change.state_name)
           IN  /\ exp_at_change_list_version.states[state_name].widget_id
                     = current_exploration.states[state_name].widget_id
               /\ Entry(changed_properties, state_name)
                     \cap ConflictGroup(change.property_name) = {}
               /\ change.property_name
                     \notin Entry(changed_translations, state_name)

(***************************************************************************)
(* Claims about validation.                                                *)
(***************************************************************************)
StrictlyValidated == op.name = "validate" /\ op.strict
LenientlyValidated == op.name = "validate" /\ ~op.strict

\* The number of states of the exploration that are checkpoints.
Checkpoints == Cardinality({n \in DOMAIN states : states[n].card_is_checkpoint})

\* C11: validate(strict=True) fails for every graph that has no checkpoint
\* or at least nine of them, and the checkpoint-count check rejects no
\* graph that has between one and eight checkpoints.
C11_CheckpointCountBounds ==
    StrictlyValidated =>
        /\ (Checkpoints = 0 \/ Checkpoints >= 9) => op.raised
        /\ op.error = "checkpoint_count" => Checkpoints \notin 1 .. 8

\* A graph with nine checkpoints that passes the checks of the initial and
\* of the terminal states and is rejected by the count check.
C11_Witness ==
    /\ StrictlyValidated
    /\ Checkpoints = 9
    /\ states[init_state_name].card_is_checkpoint
    /\ op.error = "checkpoint_count"

Searched(name) == op.name = name

RECURSIVE ReachedFrom(_, _)
\* The states that a path of outcome edges from `seen` reaches when only
\* the outcomes of the states in `followed` are followed.
ReachedFrom(seen, followed) ==
    LET next == seen \cup
                {Outcomes(CurrentGraph, n)[i].dest :
                    <<n, i>> \in {<<m, j>> \in (seen \cap followed) \X (1 .. MaxEdges + 1) :
                                     j \in DOMAIN Outcomes(CurrentGraph, m)}}
    IN IF next = seen THEN seen ELSE ReachedFrom(next, followed)

\* The states that no outcome of any state names as its dest.
NeverNamed ==
    {d \in DOMAIN states :
        \A n \in DOMAIN states : \A i \in DOMAIN Outcomes(CurrentGraph, n) :
            Outcomes(CurrentGraph, n)[i].dest # d}

NonTerminal == {n \in DOMAIN states : ~IsTerminal(states[n])}

\* C12, as stated: _verify_all_states_reachable reports exactly the states
\* that no path of outcome edges from the initial state reaches, the
\* outcomes of every state being followed.
C12_ReportsUnreachableOverAllEdges ==
    Searched("_verify_all_states_reachable") =>
        op.reported = DOMAIN states \ ReachedFrom({init_state_name}, DOMAIN states)

\* C12, amended: _verify_all_states_reachable reports exactly the states
\* that no path from the initial state reaches when the outcomes of
\* terminal states are not followed; it never reports the initial state,
\* and it always reports a state other than the initial one that no outcome
\* names as its dest.
C12_ReportsUnreachableOverNonTerminalEdges ==
    Searched("_verify_all_states_reachable") =>
        /\ op.reported = DOMAIN states \ ReachedFrom({init_state_name}, NonTerminal)
        /\ init_state_name \notin op.reported
        /\ NeverNamed \ {init_state_name} \subseteq op.reported
        /\ op.raised <=> op.reported # {}

\* A state is reported although an outcome of a reachable terminal state
\* names it, and another state is reported that no outcome names.
C12_Witness ==
    /\ Searched("_verify_all_states_reachable")
    /\ \E n \in op.reported :
          /\ n \in ReachedFrom({init_state_name}, DOMAIN states)
          /\ \E m \in op.reported : m # n /\ m \in NeverNamed

Terminal == {n \in DOMAIN states : IsTerminal(states[n])}

\* The states from which a path of outcome edges, possibly empty, leads to
\* a terminal state.
CanReachTerminal ==
    {n \in DOMAIN states : ReachedFrom({n}, DOMAIN states) \cap Terminal # {}}

\* C13: _verify_no_dead_ends reports exactly the states from which no
\* terminal state can be reached; it never reports a terminal state, and
\* it reports every state of a graph that has no terminal state.
C13_ReportsDeadEnds ==
    Searched("_verify_no_dead_ends") =>
        /\ op.reported = DOMAIN states \ CanReachTerminal
        /\ op.reported \cap Terminal = {}
        /\ Terminal = {} => op.reported = DOMAIN states
        /\ op.raised <=> op.reported # {}

\* A graph with a terminal state, a state that leads both to it and to a
\* dead end, and the dead end: the search reports the dead end alone.
C13_Witness ==
    /\ Searched("_verify_no_dead_ends")
    /\ Cardinality(op.reported) = 1
    /\ Terminal # {}
    /\ \E n \in DOMAIN states \ (op.reported \cup Terminal) :
          \E i \in DOMAIN Outcomes(CurrentGraph, n) :
              Outcomes(CurrentGraph, n)[i].dest \in op.reported

\* Some outcome of some state leads back to the state and is labelled
\* correct.
SelfLoopLabelledCorrect ==
    \E n \in DOMAIN states : \E i \in DOMAIN Outcomes(CurrentGraph, n) :
        /\ Outcomes(CurrentGraph, n)[i].dest = n
        /\ Outcomes(CurrentGraph, n)[i].labelled_as_correct

\* The exploration with no outcome labelled correct.
Unlabelled ==
    LET Clear(outcomes) ==
            [i \in DOMAIN outcomes |->
                [outcomes[i] EXCEPT !.labelled_as_correct = FALSE]]
    IN [CurrentExploration EXCEPT
           !.states = [n \in DOMAIN states |->
                          [states[n] EXCEPT
                              !.answer_groups = Clear(@),
                              !.default_outcome = Clear(@)]]]

\* C14: validate(strict=True) fails for every graph that has a self-loop
\* outcome labelled correct; validate(strict=False) never rejects a graph
\* on that ground: its verdict is the one it gives when no outcome is
\* labelled correct.
C14_CorrectSelfLoopFailsStrictOnly ==
    /\ StrictlyValidated /\ SelfLoopLabelledCorrect => op.raised
    /\ LenientlyValidated =>
          /\ op.error # "self_loop_correct"
          /\ op.error = validate(Unlabelled, FALSE).error

\* Strict validation reaches the self-loop check and raises there, for an
\* answer group that leads back to its state.
C14_Witness ==
    /\ StrictlyValidated
    /\ op.error = "self_loop_correct"
    /\ \E n \in DOMAIN states : \E i \in DOMAIN states[n].answer_groups :
          /\ states[n].answer_groups[i].dest = n
          /\ states[n].answer_groups[i].labelled_as_correct
    /\ ~HasCorrectSelfLoopDefaultOnly(CurrentGraph)

\* Every dest names a state: the structural pass finds nothing in the
\* graphs of the model when this holds.
AllDestsAreStates ==
    \A n \in DOMAIN states : \A i \in DOMAIN Outcomes(CurrentGraph, n) :
        Outcomes(CurrentGraph, n)[i].dest \in DOMAIN states

\* The findings of the warning class that the exploration has.
Findings ==
    {w \in {"unreachable", "dead_ends", "title", "category", "objective"} :
        \/ w = "unreachable"
             /\ ReachedFrom({init_state_name}, NonTerminal) # DOMAIN states
        \/ w = "dead_ends" /\ CanReachTerminal # DOMAIN states
        \/ w = "title" /\ title = ""
        \/ w = "category" /\ category = ""
        \/ w = "objective" /\ objective = ""}

\* One of the hard strict checks fails.
HardCheckFails ==
    \/ ~states[init_state_name].card_is_checkpoint
    \/ \E n \in Terminal \ {init_state_name} : states[n].card_is_checkpoint
    \/ Checkpoints \notin 1 .. 8
    \/ BypassableCheckpoints(CurrentGraph) # {}
    \/ SelfLoopLabelledCorrect

HardErrors ==
    {"init_state_not_checkpoint", "terminal_checkpoint", "checkpoint_count",
     "bypassable", "self_loop_correct"}

\* C15: in validate(strict=True) the findings of the warning class do not
\* raise where they are detected: they are raised together, as one error
\* that lists all of them, and only when no hard strict check fails; when
\* a hard check fails its error is the one raised.  validate(strict=False)
\* passes a graph whose only defects are unreachable states or dead ends.
C15_WarningsRaisedTogetherAfterHardChecks ==
    /\ StrictlyValidated /\ AllDestsAreStates =>
          /\ HardCheckFails => op.error \in HardErrors
          /\ ~HardCheckFails /\ Findings # {} =>
                /\ op.error = "warnings"
                /\ Range(op.warnings_list) = Findings
                /\ Len(op.warnings_list) = Cardinality(Findings)
          /\ ~HardCheckFails /\ Findings = {} => ~op.raised
    /\ LenientlyValidated /\ AllDestsAreStates => ~op.raised

\* An exploration with an unreachable state, a dead end and no title, no
\* category and no objective: one error lists the five findings.
C15_Witness ==
    /\ StrictlyValidated
    /\ op.error = "warnings"
    /\ Len(op.warnings_list) = 5
    /\ op.unreachable # {}
    /\ op.dead_ends # {}

\* The states of the base version that have another name in the head
\* version: the composite change list renamed them.
RenamedByComposite ==
    {b \in BaseStateNames :
        \E n \in DOMAIN current_exploration.states :
            current_exploration.states[n].base_name = b /\ n # b}

\* c is an edit_state_property or add_written_translation change of a
\* state that the composite change list renamed; `renamed` resolves the
\* renames that change_list made before c.
EditsRenamedState(c, renamed) ==
    /\ c.cmd \in {"edit_state_property", "add_written_translation"}
    /\ ResolvedName(renamed, c.state_name) \in RenamedByComposite

\* The call returned and change_list holds an edit of a state that the
\* composite change list renamed: it is the last change the loop read, or
\* it is one of the changes that the loop left unread, which can be any
\* change that applies after the changes read.
HoldsEditOfRenamedState ==
    /\ merge_pc = "done"
    /\ \/ EditsRenamedState(change, state_names_of_renamed_states)
       \/ /\ remaining > 0
          /\ \E c \in CandidateChanges(state_names_of_renamed_states) :
                EditsRenamedState(c, state_names_of_renamed_states)

\* C16, as stated: needs_manual_review is True whenever change_list holds
\* an edit_state_property or add_written_translation change of a state
\* that the composite change list renamed, wherever the change stands in
\* the list and whatever stands before it.
C16_EditOfRenamedStateAlwaysReviewed ==
    HoldsEditOfRenamedState => merge_result[2]

\* C16, amended: the call returns (False, True) whenever the loop reads an
\* edit_state_property or add_written_translation change of a state that
\* the composite change list renamed, that is, whenever every change
\* before it is judged mergeable.
C16_EditOfRenamedStateReviewedWhenRead ==
    (merge_pc = "done"
       /\ EditsRenamedState(change, state_names_of_renamed_states))
        => merge_result = <<FALSE, TRUE>>

\* The loop judged a first change mergeable, then read an edit of a state
\* that the composite change list renamed, and returned (False, True).
C16_Witness ==
    /\ merge_pc = "done"
    /\ EditsRenamedState(change, state_names_of_renamed_states)
    /\ changes_are_mergeable
    /\ merge_result = <<FALSE, TRUE>>

\* The call returned, and the composite change list left no state added
\* and no state deleted.
ReturnedWithSameStates ==
    merge_pc = "done" /\ NetAddedStates = {} /\ NetDeletedStates = {}

\* C17: when the composite change list leaves no state added or deleted,
\* the first component of the result is True exactly when change_list is
\* not empty, the loop has read all of it and judged every change
\* mergeable; a change judged not mergeable makes the result False whatever
\* follows it; an empty change_list yields (False, False).  The loop goes on
\* to the next change only after a change judged mergeable, so "every
\* change" comes down to the last change read.
C17_MergeableIffEveryChangeMergeable ==
    ReturnedWithSameStates =>
        /\ merge_result[1] <=>
              (change # NoChange /\ remaining = 0 /\ change_is_mergeable)
        /\ change.cmd \notin {"none", "rename_state"} =>
              (merge_result[1] <=>
                  /\ remaining = 0
                  /\ loop_body(Verifier, current_exploration,
                               state_names_of_renamed_states,
                               change).mergeable)
        /\ remaining > 0 /\ change # NoChange => ~merge_result[1]
        /\ change = NoChange => merge_result = <<FALSE, FALSE>>

\* After a rename that was judged mergeable the loop read an edit that it
\* judged not mergeable: the call returned (False, False).
C17_Witness ==
    /\ ReturnedWithSameStates
    /\ state_names_of_renamed_states # <<>>
    /\ change.cmd = "edit_state_property"
    /\ ~change_is_mergeable
    /\ merge_result = <<FALSE, FALSE>>

\* The last change the loop read edits a property of the whitelist.
WhitelistedEditRead ==
    /\ ReturnedWithSameStates
    /\ change.cmd = "edit_state_property"
    /\ change.property_name \in
           {"confirmed_unclassified_answers", "next_content_id_index",
            "linked_skill_id", "card_is_checkpoint"}

\* The name in the base version of the state that the last change read
\* edits.
EditedBaseName == ResolvedName(state_names_of_renamed_states, change.state_name)

\* The states of the base version that the verifier recorded as the source
\* of a rename_state change of the composite list: a state renamed to its
\* own name, or renamed and renamed back, is among them.
RenameRecorded ==
    {new_to_old_state_names[n] : n \in DOMAIN new_to_old_state_names}

CompositeLeavesAlone(b) ==
    /\ composite_change_list.cmds \subseteq
           {"edit_state_property", "add_written_translation", "rename_state"}
    /\ Entry(changed_properties, b) = {}
    /\ Entry(changed_translations, b) = {}
    /\ b \notin RenameRecorded

\* c edits linked_skill_id of a state that the composite list left alone,
\* in a change_list that renamed no state so far.
LinkedSkillIdEdit(c) ==
    /\ c.cmd = "edit_state_property"
    /\ c.property_name = "linked_skill_id"
    /\ state_names_of_renamed_states = <<>>
    /\ CompositeLeavesAlone(c.state_name)

\* A pass of the loop over such an edit judges it mergeable and goes on
\* with the loop.
LinkedSkillIdEditGoesOn ==
    \A c \in CandidateChanges(state_names_of_renamed_states) :
        (LinkedSkillIdEdit(c) /\ LoopBody(c)) =>
            /\ changes_are_mergeable'
            /\ merge_pc' = "loop"
            /\ state_names_of_renamed_states' = <<>>

\* The return after the loop gives (changes_are_mergeable, False).
ReturnGivesChangesAreMergeable ==
    (merge_pc = "loop" /\ remaining = 0 /\ merge_pc' = "done") =>
        merge_result' = <<changes_are_mergeable, FALSE>>

\* C19: a change_list that is not empty and only edits linked_skill_id of
\* a state N, against a composite list made only of edit_state_property,
\* add_written_translation and rename_state changes of other states,
\* returns (True, False).  By induction on change_list: every pass of the
\* loop over such an edit judges it mergeable and goes on with the loop,
\* the return after the loop gives (changes_are_mergeable, False), and the
\* call that returned after reading such an edit returned (True, False).
C19_LinkedSkillIdEditsMerge ==
    /\ [](merge_pc = "done" /\ LinkedSkillIdEdit(change)
             => merge_result = <<TRUE, FALSE>>)
    /\ [][LinkedSkillIdEditGoesOn /\ ReturnGivesChangesAreMergeable]_vars

\* The composite list edited and renamed the state A; the call read an
\* edit of linked_skill_id of B and returned (True, False).
C19_Witness ==
    /\ merge_pc = "done"
    /\ LinkedSkillIdEdit(change)
    /\ changed_properties # <<>>
    /\ new_to_old_state_names # <<>>
    /\ merge_result = <<TRUE, FALSE>>

\* The last change the loop read edits recorded_voiceovers of a state that
\* no rename_state change of the composite list renamed.
VoiceoversEditRead ==
    /\ ReturnedWithSameStates
    /\ change.cmd = "edit_state_property"
    /\ change.property_name = "recorded_voiceovers"
    /\ EditedBaseName \notin RenameRecorded

\* The properties of the edited state that the composite list touched.
TouchedByComposite == Entry(changed_properties, EditedBaseName)

\* C20, as stated: an edit of recorded_voiceovers is judged mergeable
\* whenever the composite list touched none of content, solution, hints,
\* written_translations, answer_groups, default_outcome and
\* widget_customization_args on the state; so it is when the only property
\* the composite list edited on the state is recorded_voiceovers.
C20_VoiceoversEditMergeableIfGroupUntouched ==
    (VoiceoversEditRead
       /\ TouchedByComposite \cap
              {"content", "solution", "hints", "written_translations",
               "answer_groups", "default_outcome",
               "widget_customization_args"} = {})
        => change_is_mergeable

\* C20, amended: an edit of recorded_voiceovers of a state that the
\* composite list did not rename is judged mergeable exactly when the
\* composite list touched none of these seven properties and did not edit
\* recorded_voiceovers on the state either.
C20_VoiceoversEditMergeableIffNoneTouched ==
    VoiceoversEditRead =>
        (change_is_mergeable <=>
            TouchedByComposite \cap
                {"content", "solution", "hints", "written_translations",
                 "answer_groups", "default_outcome",
                 "widget_customization_args", "recorded_voiceovers"} = {})

\* The composite list touched a property of the state that is none of the
\* eight, and the edit of recorded_voiceovers is judged mergeable.
C20_Witness ==
    /\ VoiceoversEditRead
    /\ TouchedByComposite # {}
    /\ change_is_mergeable
    /\ merge_result = <<TRUE, FALSE>>

\* The last change the loop read edits a property of the exploration.
ExplorationPropertyEditRead ==
    ReturnedWithSameStates /\ change.cmd = "edit_exploration_property"

\* C21: an edit_exploration_property change of change_list is judged
\* mergeable exactly when the property has the same value in the base
\* version and in the head version, whatever changes of states the
\* composite list holds and whatever new value the change proposes.
C21_ExplorationPropertyEditMergeableIffSameValue ==
    ExplorationPropertyEditRead =>
        /\ change_is_mergeable <=>
              exp_at_change_list_version[change.property_name]
                  = current_exploration[change.property_name]
        /\ change_is_mergeable => merge_result = <<TRUE, FALSE>>
        /\ ~change_is_mergeable => merge_result = <<FALSE, FALSE>>

\* The composite list edited a state and set the property to the value it
\* had: the edit of the property is judged mergeable.
C21_Witness ==
    /\ ExplorationPropertyEditRead
    /\ {"edit_exploration_property", "edit_state_property"}
           \subseteq composite_change_list.cmds
    /\ change.new_value # current_exploration[change.property_name]
    /\ merge_result = <<TRUE, FALSE>>

\* The state of the base version the composite change list renamed, by a
\* rename_state change of its own.
RenamedInComposite(b) ==
    \E n \in DOMAIN current_exploration.states :
        /\ current_exploration.states[n].base_name = b
        /\ current_exploration.states[n].renamed

RenameRead == ReturnedWithSameStates /\ change.cmd = "rename_state"

\* The name in the base version of the state the last rename_state read
\* renames.
RenamedBaseName == frontend_state_names[change.new_state_name]

\* C22: a rename_state change of the change list under review is judged
\* mergeable exactly when the state it renames, under the name it has in the
\* base version (old_state_name taken back through the earlier renames of
\* the change list), was not renamed by the composite change list; the
\* second rename of a chain A -> B, B -> C is judged on A as the first is.
C22_RenameMergeableIffBaseNameNotRenamed ==
    RenameRead =>
        /\ change_is_mergeable <=> ~RenamedInComposite(RenamedBaseName)
        /\ state_names_of_renamed_states[change.new_state_name]
               = RenamedBaseName

\* The second rename of a chain judged on the name of the base version,
\* with a composite change list that renamed another state.
C22_Witness ==
    /\ RenameRead
    /\ RenamedBaseName # old_state_name(change)
    /\ RenamedBaseName # change.new_state_name
    /\ change_is_mergeable
    /\ \E b \in BaseStateNames : RenamedInComposite(b)
    /\ merge_result = <<TRUE, FALSE>>

\* C30: is_change_list_mergeable never returns (True, True): a list is
\* never both mergeable and sent for review.
C30_NeverMergeableAndForReview ==
    /\ merge_result # <<TRUE, TRUE>>
    /\ merge_pc = "done" =>
           merge_result \in {<<TRUE, FALSE>>, <<FALSE, FALSE>>,
                              <<FALSE, TRUE>>}

\* A review asked for after earlier changes of the list were found
\* mergeable.
C30_Witness ==
    /\ merge_pc = "done"
    /\ changes_are_mergeable
    /\ merge_result = <<FALSE, TRUE>>

\* The last change read is an edit_state_property or add_written_translation
\* change that was given a verdict.
EditOrTranslationRead ==
    /\ ReturnedWithSameStates
    /\ change.cmd \in {"edit_state_property", "add_written_translation"}
    /\ merge_result[2] = FALSE

\* The name in the base version of the state that change edits.
EditedStateBaseName == frontend_state_names[change.state_name]

\* The verdict of the last change read without the fallback rule.
VerdictWithoutFallback ==
    IF change.cmd = "edit_state_property"
        THEN property_specific_condition(Verifier, current_exploration,
                                         EditedStateBaseName,
                                         change.property_name)
        ELSE translation_specific_condition(Verifier, EditedStateBaseName,
                                            change.content_id)

\* C29: with the head version being the composite change list replayed on
\* the base version, the rule `if not self.changed_properties[state_name]:
\* change_is_mergeable = True` changes no verdict: whenever nothing is
\* recorded for the state an edit_state_property or add_written_translation
\* change edits, the condition specific to the property holds already.
C29_FallbackChangesNoVerdict ==
    EditOrTranslationRead =>
        /\ nothing_changed(Verifier, EditedStateBaseName)
               => (change.cmd = "edit_state_property"
                     /\ change.property_name \notin FallbackProperties)
                  \/ VerdictWithoutFallback
        /\ change_is_mergeable <=> VerdictWithoutFallback

\* The fallback rule applies to a change on a state the composite change
\* list left alone while it edited another.
C29_Witness ==
    /\ EditOrTranslationRead
    /\ nothing_changed(Verifier, EditedStateBaseName)
    /\ change.cmd = "edit_state_property"
    /\ change.property_name \in FallbackProperties
    /\ changed_properties # <<>>
    /\ change_is_mergeable

(***************************************************************************)
(* Claims about the mutators of the graph, continued.                      *)
(***************************************************************************)
\* The call of `name` that was made returned.
CallReturned(name) == op.name = name /\ ~op.raised

\* The call of `name` that was made raised.
CallRaised(name) == op.name = name /\ op.raised

\* The state n is as before the call, but for card_is_checkpoint.
SameButCheckpoint(n) ==
    /\ n \in DOMAIN pre_states
    /\ states[n] = [pre_states[n] EXCEPT
                       !.card_is_checkpoint = states[n].card_is_checkpoint]

\* C24: after update_init_state_name(name) returns, init_state_name is name,
\* the state name is a checkpoint, the former initial state is no
\* checkpoint when it is another state that is still there, and no other
\* card_is_checkpoint and no dest has changed.
C24_UpdateInitStateNameMovesCheckpoint ==
    CallReturned("update_init_state_name") =>
        LET name == op.args[1] IN
        /\ init_state_name = name
        /\ states[name].card_is_checkpoint
        /\ (pre_init_state_name # name
               /\ pre_init_state_name \in DOMAIN states)
               => ~states[pre_init_state_name].card_is_checkpoint
        /\ DOMAIN states = DOMAIN pre_states
        /\ \A n \in DOMAIN states : SameButCheckpoint(n)
        /\ \A n \in DOMAIN states \ {name, pre_init_state_name} :
              states[n] = pre_states[n]

\* The initial state moves from a checkpoint to a state that was none, with
\* a third state that is a checkpoint.
C24_Witness ==
    /\ CallReturned("update_init_state_name")
    /\ pre_init_state_name # op.args[1]
    /\ pre_states[pre_init_state_name].card_is_checkpoint
    /\ ~pre_states[op.args[1]].card_is_checkpoint
    /\ \E n \in DOMAIN states \ {op.args[1], pre_init_state_name} :
          /\ states[n].card_is_checkpoint
          /\ \E i \in DOMAIN get_all_outcomes(states[n]) :
                get_all_outcomes(states[n])[i].dest = pre_init_state_name

\* The graph is as it was before the call.
GraphUnchanged ==
    /\ states = pre_states
    /\ init_state_name = pre_init_state_name

\* The call that was made had to fail.
HadToFail ==
    \/ /\ op.name = "add_states"
       /\ \E i \in DOMAIN op.args : op.args[i] \in DOMAIN pre_states
    \/ /\ op.name = "rename_state"
       /\ \/ op.args[1] \notin DOMAIN pre_states
          \/ op.args[2] \in DOMAIN pre_states /\ op.args[2] # op.args[1]
    \/ /\ op.name = "delete_state"
       /\ \/ op.args[1] \notin DOMAIN pre_states
          \/ op.args[1] = pre_init_state_name
    \/ /\ op.name = "update_init_state_name"
       /\ op.args[1] \notin DOMAIN pre_states

\* C25: a mutator that fails leaves the graph as it was: add_states when one
\* of the names is a state already (none of the names is inserted, those
\* listed before the duplicate included), rename_state when the old name is
\* no state or the new name is another state, delete_state when the name is
\* no state or the initial state, update_init_state_name when the name is
\* no state.
C25_FailingMutatorLeavesGraph ==
    /\ HadToFail => op.raised /\ GraphUnchanged
    /\ (op.name \in {"add_states", "rename_state", "delete_state",
                      "update_init_state_name"} /\ op.raised)
          => GraphUnchanged

\* add_states fails on its second name, the first being a new one.
C25_Witness ==
    /\ CallRaised("add_states")
    /\ Len(op.args) = 2
    /\ op.args[1] \notin DOMAIN pre_states
    /\ op.args[2] \in DOMAIN pre_states
    /\ GraphUnchanged

\* C26: validate, strict or not, returning or raising, leaves the graph as
\* it was; the bypass check removes the checkpoint from a copy of states.
C26_ValidateLeavesGraph ==
    op.name = "validate" => GraphUnchanged

\* A strict validation that ran the bypass check for a checkpoint and
\* raised for it.
C26_Witness ==
    /\ op.name = "validate"
    /\ op.strict
    /\ op.error = "bypassable"
    /\ Len(non_initial_checkpoint_state_names(PreGraph)) > 0
    /\ GraphUnchanged

(***************************************************************************)
(* A change list replayed on an exploration, call by call, and the         *)
(* ExplorationVersionsDiff of the changes that were applied.  A call that  *)
(* raises is no part of the list.  added_state_names, deleted_state_names  *)
(* and new_to_old_state_names are here the three locals of                 *)
(* ExplorationVersionsDiff.__init__; composite_change_list counts the      *)
(* calls made and keeps the cmds applied; current_exploration follows the  *)
(* states of the base version by their base_name.                          *)
(***************************************************************************)
\* At most this many calls in one replay.
MaxReplay == 4

\* {value: key for key, value in new_to_old_state_names.items()} taken for
\* the dict itself.
DictNotInverted(dict) == dict

\* {value: key for key, value in dict.items()}
DictInverted(dict) ==
    LET values == {dict[k] : k \in DOMAIN dict}
    IN  [v \in values |-> CHOOSE k \in DOMAIN dict : dict[k] = v]

\* The name a deleted state is listed under, taken to be its last name.
original_state_name_last(new_to_old, state_name) == state_name

\* original_state_name of the delete_state branch.
original_state_name(new_to_old, state_name) ==
    IF state_name \in DOMAIN new_to_old
        THEN new_to_old[state_name]
        ELSE state_name

\* One pass of `for change in change_list` of
\* ExplorationVersionsDiff.__init__ over its three locals.
versions_diff_change(diff, c) ==
    IF c.cmd = "add_state"
        THEN [diff EXCEPT !.added_state_names = Append(@, c.state_name)]
    ELSE IF c.cmd = "delete_state"
        THEN IF InList(c.state_name, diff.added_state_names)
               THEN [diff EXCEPT
                        !.added_state_names = Remove(@, c.state_name)]
               ELSE [diff EXCEPT
                        !.new_to_old_state_names = Pop(@, c.state_name),
                        !.deleted_state_names =
                            Append(@, original_state_name(
                                          diff.new_to_old_state_names,
                                          c.state_name))]
    ELSE IF c.cmd = "rename_state"
        THEN IF InList(old_state_name(c), diff.added_state_names)
               THEN [diff EXCEPT
                        !.added_state_names =
                            Append(Remove(@, old_state_name(c)),
                                   c.new_state_name)]
             ELSE IF old_state_name(c)
                        \in DOMAIN diff.new_to_old_state_names
               THEN [diff EXCEPT
                        !.new_to_old_state_names =
                            Put(Pop(@, old_state_name(c)), c.new_state_name,
                                @[old_state_name(c)])]
             ELSE [diff EXCEPT
                      !.new_to_old_state_names =
                          Put(@, c.new_state_name, old_state_name(c))]
    ELSE diff

\* The three locals as one record.
VersionsDiffLocals ==
    [added_state_names |-> added_state_names,
     deleted_state_names |-> deleted_state_names,
     new_to_old_state_names |-> new_to_old_state_names]

\* The object __init__ leaves when the list ends with the changes applied
\* so far.
ExplorationVersionsDiff ==
    [added_state_names |-> added_state_names,
     deleted_state_names |-> deleted_state_names,
     new_to_old_state_names |-> new_to_old_state_names,
     old_to_new_state_names |-> DictInverted(new_to_old_state_names)]

\* The version the change list starts from: the states of BaseStateNames,
\* at most MaxOutcomes outcomes, all into states of the version.
InitReplay ==
    /\ \E edges \in EdgeLists(BaseStateNames, {FALSE}, MaxOutcomes) :
          /\ \A i \in DOMAIN edges : edges[i].dest \in BaseStateNames
          /\ init_state_name \in BaseStateNames
          /\ states = StatesFrom(BaseStateNames, edges,
                                 [n \in BaseStateNames |->
                                     n = init_state_name],
                                 [n \in BaseStateNames |-> "TextInput"])
    /\ pre_states = states
    /\ pre_init_state_name = init_state_name
    /\ op = [name |-> "from_dict", args |-> <<>>, raised |-> FALSE]
    /\ SettingsFilledIn
    /\ added_state_names = <<>>
    /\ deleted_state_names = <<>>
    /\ new_to_old_state_names = <<>>
    /\ changed_properties = <<>>
    /\ changed_translations = <<>>
    /\ composite_change_list = [len |-> 0, cmds |-> {}]
    /\ current_exploration = exp_at_change_list_version
    /\ merge_pc = "idle"
    /\ remaining = 0
    /\ state_names_of_renamed_states = <<>>
    /\ changes_are_mergeable = FALSE
    /\ change = [cmd |-> "none"]
    /\ change_is_mergeable = FALSE
    /\ merge_result = <<>>
    /\ frontend_state_names = <<>>
    /\ IdleMigrate
    /\ IdleStates

\* The change c of the list applied through the method `name`.
Replay(c, name, args, result) ==
    /\ composite_change_list.len < MaxReplay
    /\ pre_states' = states
    /\ pre_init_state_name' = init_state_name
    /\ states' = result.graph.states
    /\ init_state_name' = result.graph.init_state_name
    /\ op' = [name |-> name, args |-> args, raised |-> result.raised]
    /\ composite_change_list' =
           [len |-> composite_change_list.len + 1,
            cmds |-> IF result.raised THEN composite_change_list.cmds
                     ELSE composite_change_list.cmds \cup {c.cmd}]
    /\ LET diff == IF result.raised THEN VersionsDiffLocals
                   ELSE versions_diff_change(VersionsDiffLocals, c)
       IN /\ added_state_names' = diff.added_state_names
          /\ deleted_state_names' = diff.deleted_state_names
          /\ new_to_old_state_names' = diff.new_to_old_state_names
    /\ current_exploration' =
           IF ~result.raised
              /\ c.cmd \in {"add_state", "delete_state", "rename_state"}
             THEN apply_change(current_exploration, c)
             ELSE current_exploration
    /\ UNCHANGED <<changed_properties, changed_translations, merge_pc,
                   remaining, state_names_of_renamed_states,
                   changes_are_mergeable, change, change_is_mergeable,
                   merge_result, frontend_state_names, settings_vars,
                   migrate_vars, states_vars>>

ReplayAddState(state_name) ==
    Replay(ExplorationChange("add_state", state_name, "", "", <<>>, ""),
           "add_states", <<state_name>>,
           add_states(CurrentGraph, <<state_name>>))

ReplayRenameState(old, new) ==
    Replay(ExplorationChange("rename_state", old, new, "", <<>>, ""),
           "rename_state", <<old, new>>,
           rename_state(CurrentGraph, old, new))

ReplayDeleteState(state_name) ==
    Replay(ExplorationChange("delete_state", state_name, "", "", <<>>, ""),
           "delete_state", <<state_name>>,
           delete_state(CurrentGraph, state_name))

ReplayUpdateInitStateName(state_name) ==
    Replay(ExplorationChange("edit_exploration_property", "", "",
                             "init_state_name", <<>>, state_name),
           "update_init_state_name", <<state_name>>,
           update_init_state_name(CurrentGraph, state_name))

NextReplay ==
    \/ \E n \in Names : ReplayAddState(n)
    \/ \E old \in Names, new \in Names : ReplayRenameState(old, new)
    \/ \E n \in Names : ReplayDeleteState(n)
    \/ \E n \in Names : ReplayUpdateInitStateName(n)

SpecReplay == InitReplay /\ [][NextReplay]_vars

(***************************************************************************)
(* Claims about replayed change lists.                                     *)
(***************************************************************************)
\* Every outcome of every state leads to a state.
EveryDestIsAState ==
    \A n \in DOMAIN states :
        \A i \in DOMAIN get_all_outcomes(states[n]) :
            get_all_outcomes(states[n])[i].dest \in DOMAIN states

\* C27: from a graph whose initial state is a state and whose outcomes all
\* lead to states, any sequence of add_states, rename_state, delete_state
\* and update_init_state_name calls, returning or raising, leaves a graph
\* whose initial state is a state and whose outcomes all lead to states.
C27_MutatorsKeepGraphClosed ==
    /\ init_state_name \in DOMAIN states
    /\ EveryDestIsAState

\* The last of MaxReplay calls deleted a state that had an outcome from
\* another state, after the initial state was moved.
C27_Witness ==
    /\ composite_change_list.len = MaxReplay
    /\ CallReturned("delete_state")
    /\ "edit_exploration_property" \in composite_change_list.cmds
    /\ \E n \in DOMAIN states :
          \E i \in DOMAIN get_all_outcomes(pre_states[n]) :
              get_all_outcomes(pre_states[n])[i].dest = op.args[1]
    /\ C27_MutatorsKeepGraphClosed

\* The states of the replayed exploration that the list added.
AddedAndThere ==
    {n \in DOMAIN current_exploration.states :
        current_exploration.states[n].base_name = ""}

\* The states of the base version that are in the replayed exploration,
\* under their names in the base version.
BaseAndThere ==
    {current_exploration.states[n].base_name :
        n \in DOMAIN current_exploration.states} \ {""}

NoDuplicates(list) ==
    \A i, j \in DOMAIN list : list[i] = list[j] => i = j

\* C23: the ExplorationVersionsDiff of a change list that replays keeps
\* the states added or deleted within the list out of its rename maps: no
\* value of new_to_old_state_names is in deleted_state_names, every entry
\* is about a state of the base version that is still there and none about
\* a state the list added, a state added and then deleted is in neither
\* list, a state of the base version renamed and then deleted is in
\* deleted_state_names under its name in the base version, and
\* old_to_new_state_names is the exact inverse of new_to_old_state_names.
C23_VersionsDiffKeepsAddedAndDeletedOutOfRenames ==
    LET diff == ExplorationVersionsDiff
        new_to_old == diff.new_to_old_state_names
        old_to_new == diff.old_to_new_state_names
        there == current_exploration.states
    IN
    /\ DOMAIN states = DOMAIN there
    /\ \A new \in DOMAIN new_to_old :
          /\ new_to_old[new] \notin Range(diff.deleted_state_names)
          /\ new \notin Range(diff.added_state_names)
          /\ new \in DOMAIN there
          /\ there[new].base_name = new_to_old[new]
          /\ there[new].base_name # ""
    /\ Range(diff.added_state_names) = AddedAndThere
    /\ NoDuplicates(diff.added_state_names)
    /\ Range(diff.deleted_state_names) = BaseStateNames \ BaseAndThere
    /\ NoDuplicates(diff.deleted_state_names)
    /\ DOMAIN old_to_new = {new_to_old[new] : new \in DOMAIN new_to_old}
    /\ \A new \in DOMAIN new_to_old : old_to_new[new_to_old[new]] = new
    /\ \A old \in DOMAIN old_to_new : new_to_old[old_to_new[old]] = old

\* A state of the base version was renamed and then deleted, while another
\* was renamed and is still there.
C23_Witness ==
    /\ CallReturned("delete_state")
    /\ op.args[1] \notin BaseStateNames
    /\ Len(deleted_state_names) = 1
    /\ deleted_state_names[1] # op.args[1]
    /\ new_to_old_state_names # <<>>
    /\ C23_VersionsDiffKeepsAddedAndDeletedOutOfRenames

\* The state names that ExplorationVersionsDiff gives the replayed
\* exploration.
NamesByVersionsDiff ==
    LET diff == ExplorationVersionsDiff
        get(old) == IF old \in DOMAIN diff.old_to_new_state_names
                      THEN diff.old_to_new_state_names[old]
                      ELSE old
    IN  Range(diff.added_state_names)
        \cup {get(n) : n \in BaseStateNames
                               \ Range(diff.deleted_state_names)}

\* C28: ExplorationVersionsDiff agrees with the replay: for a list of
\* add_state, rename_state and delete_state changes that replays, the names
\* of the states of the result are added_state_names together with
\* old_to_new_state_names.get(n, n) for every state n of the base version
\* that is not in deleted_state_names.
C28_VersionsDiffAgreesWithReplay ==
    DOMAIN states = NamesByVersionsDiff

\* A list that deletes a state, adds one of its name again and renames
\* another.
C28_Witness ==
    /\ composite_change_list.cmds
           = {"add_state", "rename_state", "delete_state"}
    /\ \E i \in DOMAIN added_state_names :
          added_state_names[i] \in Range(deleted_state_names)
    /\ \E new \in DOMAIN new_to_old_state_names :
          new_to_old_state_names[new] # new
    /\ C28_VersionsDiffAgreesWithReplay
====
